---- MODULE Spec2Model ----
(***************************************************************************)
(* A model of the my_lang compiler front end: the lexer (lexer.cpp), the   *)
(* recursive-descent parser (parser.cpp), the semantic analyzer            *)
(* (analysis.cpp) and the driver (compiler.cpp, main.cpp).                 *)
(*                                                                         *)
(* A source text is a sequence of one-character strings.  The lexer is     *)
(* modelled one call of Lexer::next per step; the parser and the analyzer  *)
(* are modelled as recursive operators that thread the parser or analyzer  *)
(* state through every call exactly in the order of the C++ code.          *)
(***************************************************************************)
EXTENDS Integers, Sequences, FiniteSets, TLC

VARIABLES
  pc,             \* position of the driver: lex, parse, spin, analyze, ...
  source_,        \* Lexer::source_
  start_,         \* Lexer::start_
  current_,       \* Lexer::current_
  value_dirty_,   \* Lexer::value_dirty_
  cached_value_,  \* Lexer::cached_value_
  tokens_,        \* Parser::tokens_ (the vector Lexer::lex is filling)
  lexLog,         \* diagnostics the lexer logged (Error::log)
  index_,         \* Parser::index_
  class_i,        \* the offset i of the member loop of Parser::parseClass
  program,        \* the Program Parser::parse returned
  parseLog,       \* diagnostics the parser logged (Error::log)
  parseFault,     \* "none", or what stopped the parser
  errors,         \* Analyzer::errors
  analyzeLog,     \* diagnostics the analyzer logged without recording them
  analyzeFault,   \* "none", or what stopped the analyzer
  scopeTrace,     \* scopes entered and left by enterScope / exitScope
  inferred,       \* the types inferExpression returned to the statements
  result,         \* value returned by Compiler::compileSource
  exitCode,       \* value returned by main
  called,         \* the function called on its own, and its arguments
  returned        \* what that call returned

vars ==
  <<pc, source_, start_, current_, value_dirty_, cached_value_, tokens_,
    lexLog, index_, class_i, program, parseLog, parseFault, errors,
    analyzeLog, analyzeFault, scopeTrace, inferred, result, exitCode,
    called, returned>>

\* the state of the compiler, and the state of a function called on its own
callVars == <<called, returned>>

(***************************************************************************)
(* Characters                                                              *)
(***************************************************************************)
\* what Lexer::peek returns at end of input ('\0')
NUL == "<NUL>"

Lower == {"a","b","c","d","e","f","g","h","i","j","k","l","m",
          "n","o","p","q","r","s","t","u","v","w","x","y","z"}
Upper == {"A","B","C","D","E","F","G","H","I","J","K","L","M",
          "N","O","P","Q","R","S","T","U","V","W","X","Y","Z"}
Digit == {"0","1","2","3","4","5","6","7","8","9"}

isalpha(c) == c \in Lower \cup Upper
isdigit(c) == c \in Digit
isalnum(c) == isalpha(c) \/ isdigit(c)

isWsp(c) == c = " " \/ c = "\t" \/ c = "\r" \/ c = "\n"

\* the std::string made of the characters of a sequence
RECURSIVE Str(_)
Str(cs) == IF cs = <<>> THEN "" ELSE Head(cs) \o Str(Tail(cs))

\* std::string::operator[] : the character at i, '\0' at the end
At(str, i) == IF i < Len(str) THEN str[i + 1] ELSE NUL

\* std::string::substr(pos, n), as a sequence of characters
Substr(src, pos, n) ==
  LET last == IF pos + n > Len(src) THEN Len(src) ELSE pos + n
  IN SubSeq(src, pos + 1, last)

(***************************************************************************)
(* Syntax tables (syntax.h, accessor.h, modifier.h)                        *)
(***************************************************************************)
isKwy(str) ==
  LET s == Str(str) IN
  CASE Len(str) = 2 -> s \in {"if", "fn", "in"}
    [] Len(str) = 3 -> s \in {"for", "let", "cls", "rec", "pub", "pri", "pro"}
    [] Len(str) = 4 -> s \in {"elif", "else", "case", "this", "null", "true"}
    [] Len(str) = 5 -> s \in {"while", "break", "const", "init", "false"}
    [] Len(str) = 6 -> s \in {"return", "switch"}
    [] Len(str) = 7 -> s = "default"
    [] Len(str) = 8 -> s = "continue"
    [] OTHER -> FALSE

opLen(str) ==
  LET c0 == At(str, 0)
      c1 == At(str, 1)
      one == IF c1 = NUL THEN 1 ELSE 0
  IN
  IF str = <<>> THEN 0
  ELSE CASE c0 \in {"+", "-", "*"} ->
              IF c1 = "=" THEN 2 ELSE IF c1 = c0 THEN 2 ELSE one
         [] c0 = "/" -> IF c1 = "=" THEN 2 ELSE one
         [] c0 = "%" -> IF c1 = "%" THEN 2 ELSE one
         [] c0 \in {"=", "!"} -> IF c1 = "=" THEN 2 ELSE one
         [] c0 \in {"<", ">"} ->
              IF c1 = "=" THEN 2 ELSE IF c1 = c0 THEN 2 ELSE one
         [] c0 = "." -> IF c1 = "." THEN 2 ELSE IF c1 = "=" THEN 2 ELSE one
         [] c0 \in {"&", "|", "?"} -> IF c1 = c0 THEN 2 ELSE one
         [] c0 \in {"^", "~"} -> one
         [] OTHER -> 0

isOp(str) == opLen(str) # 0

isDel(str) ==
  str # <<>> /\ str[1] \in {"(", ")", "[", "]", "{", "}", ":", ";", ".", ","}

isacc(str) == str = "pub" \/ str = "pri" \/ str = "pro"

getacc(str) ==
  IF str = "pub" THEN "Public"
  ELSE IF str = "pri" THEN "Private"
  ELSE IF str = "pro" THEN "Protected"
  ELSE "Private"

ismod(str) == str = "static" \/ str = "const" \/ str = "init"

\* Modifier is a bit set; a set of flag names here
getmod(str) ==
  IF str = "static" THEN {"Static"}
  ELSE IF str = "const" THEN {"Constant"}
  ELSE IF str = "init" THEN {"Init"}
  ELSE {}

canAccess(member_acc, accessor_acc) ==
  IF member_acc = "Public" THEN TRUE
  ELSE IF member_acc = "Private" THEN accessor_acc = "Private"
  ELSE IF member_acc = "Protected"
    THEN accessor_acc = "Protected" \/ accessor_acc = "Private"
  ELSE FALSE

(***************************************************************************)
(* Lexer (lexer.cpp).  A lexer state L is a record of the Lexer fields;    *)
(* log collects what Error::log printed.                                   *)
(***************************************************************************)
Locus(line, column, index) ==
  [line |-> line, column |-> column, index |-> index]

Token(kind, value, start, end) ==
  [kind |-> kind, value |-> value, start |-> start, end |-> end]

Diag(level, description, start, end) ==
  [level |-> level, description |-> description, start |-> start, end |-> end]

\* n copies of a character
Repeat(c, n) == [k \in 1..n |-> c]

\* the number of digits of a line number
Digits(n) == IF n < 10 THEN 1 ELSE IF n < 100 THEN 2 ELSE 3

\* Error::getLineNumberWidth
getLineNumberWidth(err) ==
  LET larger == IF err.start.line > err.end.line THEN err.start.line
                ELSE err.end.line
  IN Digits(IF larger = 0 THEN 1 ELSE larger)

\* Error::log: the width of what is printed before the source line and
\* before the carets, and the line of carets
ErrorLog(err) ==
  IF err.start.line > 0
    THEN LET line_width == getLineNumberWidth(err)
             error_start == IF err.start.column > 1
                              THEN err.start.column - 1 ELSE 0
             error_length == IF err.end.column > err.start.column
                               THEN err.end.column - err.start.column ELSE 2
         IN [shown |-> TRUE,
             source_gutter |-> line_width + 3,
             caret_gutter |-> line_width + 3,
             carets |-> Repeat(" ", error_start) \o Repeat("^", error_length)]
    ELSE [shown |-> FALSE, source_gutter |-> 0, caret_gutter |-> 0,
          carets |-> <<>>]

LexIsEof(src, L) == L.current.index >= Len(src)

\* peek_dirty_ and look_dirty_ are set by every advance(), the only place
\* current_ changes, so the two caches always hold the character at current_
LexPeek(src, L) ==
  IF LexIsEof(src, L) THEN NUL ELSE src[L.current.index + 1]

LexLook(src, L) == Substr(src, L.current.index, 1)

LexAdvance(src, L) ==
  IF LexIsEof(src, L) THEN L
  ELSE [L EXCEPT
          !.dirty = TRUE,
          !.current =
             IF src[L.current.index + 1] = "\n"
               THEN Locus(L.current.line + 1, 1, L.current.index + 1)
               ELSE Locus(L.current.line, L.current.column + 1,
                          L.current.index + 1)]

\* take(predicate), the predicate given as the set of characters it accepts
RECURSIVE LexTake(_, _, _)
LexTake(src, L, accepted) ==
  IF LexPeek(src, L) \in accepted /\ ~LexIsEof(src, L)
    THEN LexTake(src, LexAdvance(src, L), accepted)
    ELSE L

\* value(): the string it returns, and the lexer after the call
LexValue(src, L) ==
  IF ~L.dirty THEN L.cached
  ELSE Substr(src, L.start.index, L.current.index - L.start.index)

LexValued(src, L) ==
  [L EXCEPT !.cached = LexValue(src, L), !.dirty = FALSE]

LexIgnore(L) == [L EXCEPT !.start = L.current]

LexLogged(L, description) ==
  [L EXCEPT !.log = Append(L.log,
                       Diag("Error", description, L.start, L.start))]

NoToken == [kind |-> "nullptr"]

\* a faulty makeToken, which reads the start of the token after ignore()
makeTokenIgnoredFirst(src, L, kind) ==
  LET L1 == LexIgnore(LexValued(src, L))
  IN [L |-> L1,
      tok |-> Token(kind, Str(LexValue(src, L)), L1.start, L1.current)]

makeToken(src, L, kind) ==
  LET L1 == LexIgnore(LexValued(src, L))
  IN [L |-> L1,
      tok |-> Token(kind, Str(LexValue(src, L)), L.start, L1.current)]

lexAlpha(src, L) ==
  IF isalpha(LexPeek(src, L)) \/ LexPeek(src, L) = "_"
    THEN LET L1 == LexTake(src, L, Lower \cup Upper \cup Digit \cup {"_"})
             L2 == LexValued(src, L1)
         IN IF isKwy(LexValue(src, L1))
              THEN makeToken(src, L2, "Keyword")
              ELSE makeToken(src, L2, "Identifier")
    ELSE [L |-> L, tok |-> NoToken]

lexNumeric(src, L) ==
  IF isdigit(LexPeek(src, L))
    THEN LET L1 == LexTake(src, L, Digit)
         IN IF LexPeek(src, L1) = "."
              THEN IF L1.current.index + 1 < Len(src)
                      /\ src[L1.current.index + 2] = "."
                     THEN makeToken(src, L1, "Integer")
                     ELSE makeToken(src,
                            LexTake(src, LexAdvance(src, L1), Digit), "Float")
              ELSE makeToken(src, L1, "Integer")
    ELSE [L |-> L, tok |-> NoToken]

\* a faulty lexCharacter, which takes the closing quote for content
lexCharacterGreedy(src, L) ==
  IF LexPeek(src, L) = "'"
    THEN LET L1 == LexAdvance(src, L)
             L2 == IF LexPeek(src, L1) = "\\"
                     THEN LexAdvance(src, LexAdvance(src, L1))
                     ELSE LexAdvance(src, L1)
             L3 == IF LexPeek(src, L2) # "'"
                     THEN LexLogged(L2, "Unterminated character literal")
                     ELSE LexAdvance(src, L2)
         IN makeToken(src, L3, "Character")
    ELSE [L |-> L, tok |-> NoToken]

lexCharacter(src, L) ==
  IF LexPeek(src, L) = "'"
    THEN LET L1 == LexAdvance(src, L)
             L2 == IF LexPeek(src, L1) = "\\"
                     THEN LexAdvance(src, LexAdvance(src, L1))
                   ELSE IF LexPeek(src, L1) # "'"
                     THEN LexAdvance(src, L1)
                   ELSE LexLogged(L1, "Empty character literal")
             L3 == IF LexPeek(src, L2) # "'"
                     THEN LexLogged(L2, "Unterminated character literal")
                     ELSE LexAdvance(src, L2)
         IN makeToken(src, L3, "Character")
    ELSE [L |-> L, tok |-> NoToken]

\* the while loop of lexString
RECURSIVE LexStringBody(_, _)
LexStringBody(src, L) ==
  IF LexPeek(src, L) # "\""
    THEN IF LexIsEof(src, L)
           THEN LexLogged(L, "Unterminated string literal")
           ELSE LexStringBody(src, LexAdvance(src, L))
    ELSE L

\* a faulty lexString, which reports nothing at the end of the input
lexStringSilent(src, L) ==
  IF LexPeek(src, L) = "\""
    THEN LET body == {src[k] : k \in DOMAIN src} \ {"\""}
             L1 == LexTake(src, LexAdvance(src, L), body)
         IN makeToken(src, LexAdvance(src, L1), "String")
    ELSE [L |-> L, tok |-> NoToken]

lexString(src, L) ==
  IF LexPeek(src, L) = "\""
    THEN LET L1 == LexStringBody(src, LexAdvance(src, L))
         IN makeToken(src, LexAdvance(src, L1), "String")
    ELSE [L |-> L, tok |-> NoToken]

lexOperator(src, L) ==
  IF isOp(LexLook(src, L))
    THEN LET L1 == LexAdvance(src, L)
             L2 == LexValued(src, L1)
             L3 == IF isOp(Append(LexValue(src, L1), LexPeek(src, L2)))
                     THEN LexAdvance(src, L2) ELSE L2
         IN makeToken(src, L3, "Operator")
    ELSE [L |-> L, tok |-> NoToken]

lexDelimiter(src, L) ==
  IF isDel(LexLook(src, L))
    THEN makeToken(src, LexAdvance(src, L), "Delimiter")
    ELSE [L |-> L, tok |-> NoToken]

\* Lexer::next
LexerNext(src, L) ==
  LET L0 == LexIgnore(LexTake(src, L, {" ", "\t", "\r", "\n"}))
      alpha == lexAlpha(src, L0)
      numeric == lexNumeric(src, L0)
      character == lexCharacter(src, L0)
      string == lexString(src, L0)
      op == lexOperator(src, L0)
      del == lexDelimiter(src, L0)
  IN IF LexIsEof(src, L0)
       THEN [L |-> L0, tok |-> Token("Eof", "", L0.current, L0.current)]
     ELSE IF alpha.tok # NoToken THEN alpha
     ELSE IF numeric.tok # NoToken THEN numeric
     ELSE IF character.tok # NoToken THEN character
     ELSE IF string.tok # NoToken THEN string
     ELSE IF op.tok # NoToken THEN op
     ELSE IF del.tok # NoToken THEN del
     ELSE makeToken(src, L0, "None")

\* Lexer::reset
LexReset ==
  [start |-> Locus(1, 1, 0), current |-> Locus(1, 1, 0),
   dirty |-> TRUE, cached |-> <<>>, log |-> <<>>]

\* Lexer::lex as a function: the loop of next() until Eof or None
RECURSIVE LexLoop(_, _, _)
LexLoop(src, L, toks) ==
  LET r == LexerNext(src, L)
      toks1 == Append(toks, r.tok)
  IN IF r.tok.kind = "Eof" \/ r.tok.kind = "None"
       THEN [tokens |-> toks1, log |-> r.L.log]
       ELSE LexLoop(src, r.L, toks1)

lex(src) == LexLoop(src, LexReset, <<>>)

(***************************************************************************)
(* AST nodes (node.h, expr.h, stmt.h, decl.h, cond.h).  A null pointer is  *)
(* the record Null.                                                        *)
(***************************************************************************)
Null == [node |-> "nullptr"]

BinaryExpression(start, end, left, op, right) ==
  [node |-> "Binary", start |-> start, end |-> end,
   left |-> left, op |-> op, right |-> right]

UnaryExpression(start, end, op, operand) ==
  [node |-> "Unary", start |-> start, end |-> end,
   op |-> op, operand |-> operand]

LiteralExpression(start, end, value, type) ==
  [node |-> "Literal", start |-> start, end |-> end,
   value |-> value, type |-> type]

IdentifierExpression(start, end, name) ==
  [node |-> "Identifier", start |-> start, end |-> end, name |-> name]

ArrayIdentifierExpression(start, end, name, size) ==
  [node |-> "ArrayIdentifier", start |-> start, end |-> end,
   name |-> name, size |-> size]

IndexExpression(start, end, array, index) ==
  [node |-> "Index", start |-> start, end |-> end,
   array |-> array, index |-> index]

CallExpression(start, end, callee, arguments) ==
  [node |-> "Call", start |-> start, end |-> end,
   callee |-> callee, arguments |-> arguments]

AttributeExpression(start, end, object, attribute) ==
  [node |-> "Attribute", start |-> start, end |-> end,
   object |-> object, attribute |-> attribute]

ArrayExpression(start, end, elements) ==
  [node |-> "Array", start |-> start, end |-> end, elements |-> elements]

ReturnStatement(start, end, expression) ==
  [node |-> "Return", start |-> start, end |-> end,
   expression |-> expression]

BreakStatement(start, end) ==
  [node |-> "Break", start |-> start, end |-> end]

ContinueStatement(start, end) ==
  [node |-> "Continue", start |-> start, end |-> end]

ExpressionStatement(start, end, expression) ==
  [node |-> "ExpressionStatement", start |-> start, end |-> end,
   expression |-> expression]

BlockStatement(start, end, statements) ==
  [node |-> "Block", start |-> start, end |-> end,
   statements |-> statements]

ModifierStatement(start, end, accessor, modifier) ==
  [node |-> "Modifier", start |-> start, end |-> end,
   accessor |-> accessor, modifier |-> modifier]

VariableDeclaration(start, end, identifier, type, modifier, initializer) ==
  [node |-> "Variable", start |-> start, end |-> end,
   identifier |-> identifier, type |-> type, modifier |-> modifier,
   initializer |-> initializer]

FunctionDeclaration(start, end, identifier, type, modifier, parameters, body) ==
  [node |-> "Function", start |-> start, end |-> end,
   identifier |-> identifier, type |-> type, modifier |-> modifier,
   parameters |-> parameters, body |-> body]

RecordDeclaration(start, end, identifier, type, modifier, fields) ==
  [node |-> "Record", start |-> start, end |-> end,
   identifier |-> identifier, type |-> type, modifier |-> modifier,
   fields |-> fields]

ClassDeclaration(start, end, identifier, type, modifier, fields, methods) ==
  [node |-> "Class", start |-> start, end |-> end,
   identifier |-> identifier, type |-> type, modifier |-> modifier,
   fields |-> fields, methods |-> methods]

\* the base Conditional, used for the cases of a switch
Conditional(start, end, condition, then_branch) ==
  [node |-> "Conditional", start |-> start, end |-> end,
   condition |-> condition, then_branch |-> then_branch]

IfConditional(start, end, condition, then_branch, elif_branches, else_branch) ==
  [node |-> "If", start |-> start, end |-> end,
   condition |-> condition, then_branch |-> then_branch,
   elif_branches |-> elif_branches, else_branch |-> else_branch]

SwitchConditional(start, end, switch_expression, case_branches) ==
  [node |-> "Switch", start |-> start, end |-> end,
   switch_expression |-> switch_expression,
   case_branches |-> case_branches]

WhileConditional(start, end, condition, then_branch) ==
  [node |-> "While", start |-> start, end |-> end,
   condition |-> condition, then_branch |-> then_branch]

ForConditional(start, end, initializer, condition, increment, then_branch) ==
  [node |-> "For", start |-> start, end |-> end,
   initializer |-> initializer, condition |-> condition,
   increment |-> increment, then_branch |-> then_branch]

Program(start, end, statements) ==
  [node |-> "Program", start |-> start, end |-> end,
   statements |-> statements]

(***************************************************************************)
(* Parser primitives (parser.cpp).  A parser state p holds tokens_,        *)
(* index_ and last_token_, what Error::log printed, and fault: "none"      *)
(* until the parser dereferences a null pointer ("nullderef"), calls       *)
(* back() on an empty vector ("emptyback") or enters a loop that never     *)
(* changes index_ ("spin").  Once fault is set nothing more happens.       *)
(***************************************************************************)
ParserInit(toks) ==
  [tokens |-> toks, index |-> 0,
   last_token |-> Token("None", "", Locus(1, 1, 0), Locus(1, 1, 0)),
   log |-> <<>>, fault |-> "none"]

Ok(p) == p.fault = "none"

Fault(p, what) == IF Ok(p) THEN [p EXCEPT !.fault = what] ELSE p

\* the state after dereferencing each pointer of the sequence ptrs
IsNullPtr(x) ==
  IF "node" \in DOMAIN x THEN x.node = "nullptr" ELSE x.kind = "nullptr"

Deref(p, ptrs) ==
  IF \E i \in DOMAIN ptrs : IsNullPtr(ptrs[i])
    THEN Fault(p, "nullderef")
    ELSE p

PLog(p, level, description, start, end) ==
  IF Ok(p)
    THEN [p EXCEPT !.log = Append(p.log, Diag(level, description, start, end))]
    ELSE p

PIsEof(p) ==
  IF p.index >= Len(p.tokens) THEN TRUE
  ELSE IF p.index = Len(p.tokens) - 1
    THEN p.tokens[p.index + 1].value = ""
  ELSE FALSE

PPeek(p) == IF PIsEof(p) THEN NoToken ELSE p.tokens[p.index + 1]

PLook(p, offset) ==
  IF p.index + offset >= Len(p.tokens) THEN NoToken
  ELSE p.tokens[p.index + offset + 1]

\* advance(): the parser afterwards; the token it returns is PPeek(p)
PAdvance(p) ==
  IF ~Ok(p) \/ PIsEof(p) THEN p
  ELSE [p EXCEPT !.last_token = p.tokens[p.index + 1],
                 !.index = p.index + 1]

expectToken(p, kind) ==
  IF ~Ok(p) THEN [p |-> p, tok |-> NoToken]
  ELSE IF PPeek(p) = NoToken
    THEN [p |-> Fault(p, "nullderef"), tok |-> NoToken]
  ELSE LET tok == PPeek(p)
           p1 == IF tok.kind # kind
                   THEN PLog(p, "Error",
                             "Unexpected token: '" \o tok.kind \o "'",
                             tok.start, tok.end)
                   ELSE p
       IN [p |-> PAdvance(p1), tok |-> tok]

expectValue(p, value) ==
  IF ~Ok(p) THEN [p |-> p, tok |-> NoToken]
  ELSE IF PIsEof(p)
    THEN [p |-> PLog(p, "Error", "Unexpected end of input",
                     Locus(1, 1, 0), Locus(1, 1, 0)),
          tok |-> NoToken]
  ELSE LET tok == PPeek(p)
           p1 == IF tok.value # value
                   THEN PLog(p, "Error",
                             "Unexpected value: '" \o tok.value \o "'",
                             tok.start, tok.end)
                   ELSE p
       IN [p |-> PAdvance(p1), tok |-> tok]

checkToken(p, kind) == Ok(p) /\ ~PIsEof(p) /\ PPeek(p).kind = kind

checkValue(p, value) == Ok(p) /\ ~PIsEof(p) /\ PPeek(p).value = value

\* matchToken / matchValue: checkX(p, ...) tells whether it matched, and the
\* parser afterwards is MatchToken / MatchValue
MatchToken(p, kind) == IF checkToken(p, kind) THEN PAdvance(p) ELSE p

MatchValue(p, value) == IF checkValue(p, value) THEN PAdvance(p) ELSE p

\* tokens_[index_ - 1]
Previous(p) == p.tokens[p.index]

(***************************************************************************)
(* Parser: expressions.  Every operator returns the parser afterwards (p)  *)
(* and the node it built (n), Null standing for nullptr.  Where a function *)
(* goes on after a call of another parse function, the rest of it is an    *)
(* operator of its own, defined before it, that takes the call's result.   *)
(***************************************************************************)
R(p, n) == [p |-> p, n |-> n]

RECURSIVE parseExpression(_), parseUnary(_), parsePrimary(_)
RECURSIVE BinaryLevel(_, _), BinaryLoop(_, _, _), LevelsFrom(_, _, _)
RECURSIVE ExpressionList(_, _), PostfixLoop(_, _)

\* do { push(parseExpression()) } while (matchValue(",")): after the push
ListPushed(list, expr) ==
  IF checkValue(expr.p, ",")
    THEN ExpressionList(MatchValue(expr.p, ","), Append(list, expr.n))
    ELSE [p |-> expr.p, list |-> Append(list, expr.n)]

ExpressionList(p, list) == ListPushed(list, parseExpression(p))

\* parsePrimary after the expression in parentheses
Grouped(expr) ==
  LET e == expectValue(expr.p, ")")
  IN R(e.p, IF Ok(e.p) THEN expr.n ELSE Null)

\* parsePrimary after the elements of an array literal
ArrayOf(l) ==
  LET rightBracket == expectValue(l.p, "]")
      p2 == Deref(rightBracket.p, <<rightBracket.tok>>)
  IN IF Ok(p2)
       THEN R(p2, ArrayExpression(p2.last_token.start, rightBracket.tok.end,
                                  l.list))
       ELSE R(p2, Null)

parsePrimary(p) ==
  IF ~Ok(p) THEN R(p, Null)
  ELSE IF checkValue(p, "true")
    THEN LET p1 == MatchValue(p, "true")
             token == Previous(p1)
         IN R(p1, LiteralExpression(token.start, token.end, "true",
                                    "Boolean"))
  ELSE IF checkValue(p, "false")
    THEN LET p1 == MatchValue(p, "false")
             token == Previous(p1)
         IN R(p1, LiteralExpression(token.start, token.end, "false",
                                    "Boolean"))
  ELSE IF checkValue(p, "this")
    THEN LET p1 == MatchValue(p, "this")
             token == Previous(p1)
         IN R(p1, IdentifierExpression(token.start, token.end, token.value))
  ELSE IF \E k \in {"Integer", "Float", "String", "Character"} :
            checkToken(p, k)
    THEN LET p1 == PAdvance(p)
             token == Previous(p1)
         IN R(p1, LiteralExpression(token.start, token.end, token.value,
                                    token.kind))
  ELSE IF checkToken(p, "Identifier")
    THEN LET p1 == MatchToken(p, "Identifier")
             token == Previous(p1)
         IN R(p1, IdentifierExpression(token.start, token.end, token.value))
  ELSE IF checkValue(p, "(")
    THEN Grouped(parseExpression(MatchValue(p, "(")))
  ELSE IF checkValue(p, "[")
    THEN ArrayOf(IF ~checkValue(MatchValue(p, "["), "]")
                   THEN ExpressionList(MatchValue(p, "["), <<>>)
                   ELSE [p |-> MatchValue(p, "["), list |-> <<>>])
  ELSE IF PIsEof(p) \/ (PPeek(p) # NoToken /\ PPeek(p).value = "")
    THEN R(p, Null)
  ELSE R(PAdvance(PLog(p, "Error", "Unexpected token",
                       PPeek(p).start, PPeek(p).end)),
         Null)

\* the call branch of parsePostfix after the arguments
CallOf(expr, l) ==
  LET rightParen == expectValue(l.p, ")")
      p2 == Deref(rightParen.p, <<expr, rightParen.tok>>)
  IN IF Ok(p2)
       THEN PostfixLoop(p2, CallExpression(expr.start, rightParen.tok.end,
                                           expr, l.list))
       ELSE R(p2, Null)

\* the "." branch of parsePostfix after the attribute
AttributeOf(expr, attribute) ==
  LET p2 == Deref(attribute.p, <<expr, attribute.n>>)
  IN IF Ok(p2)
       THEN PostfixLoop(p2, AttributeExpression(expr.start, attribute.n.end,
                                                expr, attribute.n))
       ELSE R(p2, Null)

\* the "[" branch of parsePostfix after the index
IndexOf(expr, index) ==
  LET e == expectValue(index.p, "]")
      p2 == Deref(e.p, <<expr, index.n>>)
  IN IF Ok(p2)
       THEN PostfixLoop(p2, IndexExpression(expr.start, index.n.end, expr,
                                            index.n))
       ELSE R(p2, Null)

\* the while (true) loop of parsePostfix
PostfixLoop(p, expr) ==
  IF ~Ok(p) THEN R(p, Null)
  ELSE IF checkValue(p, "(")
    THEN CallOf(expr, IF ~checkValue(MatchValue(p, "("), ")")
                        THEN ExpressionList(MatchValue(p, "("), <<>>)
                        ELSE [p |-> MatchValue(p, "("), list |-> <<>>])
  ELSE IF checkValue(p, "++") \/ checkValue(p, "--")
    THEN LET p1 == PAdvance(p)
             opToken == Previous(p1)
             p2 == Deref(p1, <<expr>>)
         IN IF Ok(p2)
              THEN PostfixLoop(p2, UnaryExpression(expr.start, opToken.end,
                                     opToken.value, expr))
              ELSE R(p2, Null)
  ELSE IF checkValue(p, ".")
    THEN AttributeOf(expr, parseExpression(MatchValue(p, ".")))
  ELSE IF checkValue(p, "[")
    THEN IndexOf(expr, parseExpression(MatchValue(p, "[")))
  ELSE R(p, expr)

\* parsePostfix after parsePrimary
Postfixed(expr) == PostfixLoop(expr.p, expr.n)

parsePostfix(p) == Postfixed(parsePrimary(p))

\* the operator branch of parseUnary after its operand
UnaryOf(opToken, operand) ==
  LET p2 == Deref(operand.p, <<operand.n>>)
  IN IF Ok(p2)
       THEN R(p2, UnaryExpression(opToken.start, operand.n.end,
                                  opToken.value, operand.n))
       ELSE R(p2, Null)

parseUnary(p) ==
  IF ~Ok(p) THEN R(p, Null)
  ELSE IF checkValue(p, "!") \/ checkValue(p, "-")
    THEN UnaryOf(Previous(PAdvance(p)), parseUnary(PAdvance(p)))
  ELSE parsePostfix(p)

\* the operators matched by the loop of each binary level:
\* 1 parseLogicalOr, 2 parseLogicalAnd, 3 parseEquality, 4 parseComparison,
\* 5 parseTerm, 6 parseFactor
LevelOps(level) ==
  CASE level = 1 -> {"||"}
    [] level = 2 -> {"&&"}
    [] level = 3 -> {"==", "!="}
    [] level = 4 -> {"<", ">", "<=", ">=", "..", "..."}
    [] level = 5 -> {"+", "-"}
    [] level = 6 -> {"*", "/", "%"}

\* the operand of a level: the next level, parseUnary below parseFactor
Operand(p, level) ==
  IF level = 6 THEN parseUnary(p) ELSE BinaryLevel(p, level + 1)

\* a faulty loop body, which exchanges the two operands of the node it builds
BinaryOfExchanged(expr, opToken, level, right) ==
  LET p2 == Deref(right.p, <<expr, right.n>>)
  IN IF Ok(p2)
       THEN BinaryLoop(p2,
              BinaryExpression(expr.start, right.n.end, right.n, opToken.value,
                               expr),
              level)
       ELSE R(p2, Null)

\* the body of a binary level's loop after its right operand
BinaryOf(expr, opToken, level, right) ==
  LET p2 == Deref(right.p, <<expr, right.n>>)
  IN IF Ok(p2)
       THEN BinaryLoop(p2,
              BinaryExpression(expr.start, right.n.end, expr, opToken.value,
                               right.n),
              level)
       ELSE R(p2, Null)

\* while (matchValue(op) || ...) { right = operand(); expr = Binary(...) }
BinaryLoop(p, expr, level) ==
  IF ~Ok(p) THEN R(p, Null)
  ELSE IF \E op \in LevelOps(level) : checkValue(p, op)
    THEN BinaryOf(expr, Previous(PAdvance(p)), level,
                  Operand(PAdvance(p), level))
  ELSE R(p, expr)

\* the loops of the levels from one level down to another, applied in turn
\* to a parsed operand
LevelsFrom(expr, from, level) ==
  IF from < level \/ ~Ok(expr.p) THEN expr
  ELSE LevelsFrom(BinaryLoop(expr.p, expr.n, from), from - 1, level)

\* a binary level parses its left operand with the next level and then
\* loops, so it is the loops of level 6 down to its own after parseUnary
BinaryLevel(p, level) == LevelsFrom(parseUnary(p), 6, level)

parseFactor(p) == BinaryLevel(p, 6)
parseTerm(p) == BinaryLevel(p, 5)
parseComparison(p) == BinaryLevel(p, 4)
parseEquality(p) == BinaryLevel(p, 3)
parseLogicalAnd(p) == BinaryLevel(p, 2)
parseLogicalOr(p) == BinaryLevel(p, 1)

\* parseAssignment after the right side of "="
AssignTo(expr, right) ==
  LET p2 == Deref(right.p, <<expr.n, right.n>>)
  IN IF Ok(p2)
       THEN R(p2, BinaryExpression(expr.n.start, right.n.end, expr.n, "=",
                                   right.n))
       ELSE R(p2, Null)

\* parseAssignment after parseLogicalOr
Assigned(expr) ==
  IF checkValue(expr.p, "=")
    THEN AssignTo(expr, parseExpression(MatchValue(expr.p, "=")))
    ELSE expr

parseAssignment(p) == Assigned(parseLogicalOr(p))

parseExpression(p) == parseAssignment(p)

(***************************************************************************)
(* Parser: statements and declarations.                                    *)
(***************************************************************************)
RECURSIVE parseStatement(_), parseBlock(_), StatementLoop(_, _, _)
RECURSIVE ModifierLoop(_, _, _)

\* while (ismod(peek()->value)) { modifier |= getmod(...); end = ... }
ModifierLoop(p, modifier, end) ==
  IF ~Ok(p) THEN [p |-> p, modifier |-> modifier, end |-> end]
  ELSE IF IsNullPtr(PPeek(p))
    THEN [p |-> Fault(p, "nullderef"), modifier |-> modifier, end |-> end]
  ELSE IF ismod(PPeek(p).value)
    THEN ModifierLoop(PAdvance(p), modifier \cup getmod(PPeek(p).value),
                      PPeek(p).end)
  ELSE [p |-> p, modifier |-> modifier, end |-> end]

parseModifier(p) ==
  IF ~Ok(Deref(p, <<PPeek(p)>>)) THEN R(Deref(p, <<PPeek(p)>>), Null)
  ELSE LET start == PPeek(p).start
           accessor == IF isacc(PPeek(p).value)
                         THEN getacc(PPeek(p).value)
                         ELSE "Private"
           p1 == IF isacc(PPeek(p).value) THEN PAdvance(p) ELSE p
           m == ModifierLoop(p1, {}, start)
       IN IF Ok(m.p)
            THEN R(m.p, ModifierStatement(start, m.end, accessor,
                                          m.modifier))
            ELSE R(m.p, Null)

\* TypeExpression after the size between the brackets
SizedType(typeIdentifierToken, size) ==
  R(expectValue(size.p, "]").p,
    ArrayIdentifierExpression(typeIdentifierToken.start,
                              typeIdentifierToken.end,
                              typeIdentifierToken.value, size.n))

\* the type after its identifier token: T or T[size]
TypeExpression(p, typeIdentifierToken) ==
  IF ~Ok(p) THEN R(p, Null)
  ELSE IF checkValue(p, "[")
    THEN SizedType(typeIdentifierToken,
                   IF checkValue(MatchValue(p, "["), "]")
                     THEN R(MatchValue(p, "["),
                            LiteralExpression(typeIdentifierToken.start,
                                              typeIdentifierToken.end, "-1",
                                              "Integer"))
                     ELSE parseExpression(MatchValue(p, "[")))
  ELSE R(p, IdentifierExpression(typeIdentifierToken.start,
                                 typeIdentifierToken.end,
                                 typeIdentifierToken.value))

\* VariableTail after the initializer
TailEnded(semicolon, i) ==
  [p |-> IF semicolon THEN expectValue(i.p, ";").p ELSE i.p,
   initializer |-> i.n]

\* the optional "= initializer" and the optional ";" of a variable
VariableTail(p, semicolon) ==
  TailEnded(semicolon, IF checkValue(p, "=")
                         THEN parseExpression(MatchValue(p, "="))
                         ELSE R(p, Null))

Nullable(p, modifier) ==
  IF checkValue(p, "?")
    THEN [modifier EXCEPT !.modifier = @ \cup {"Nullable"}]
    ELSE modifier

\* the end of parseVariable: id is the identifier token, type the type
\* expression, last the node or token whose end is the declaration's when
\* there is no initializer, and t the result of VariableTail
VariableBuilt(id, type, last, modifier, t) ==
  IF Ok(t.p)
    THEN R(t.p, VariableDeclaration(
             id.tok.start,
             IF IsNullPtr(t.initializer) THEN last.end
                                         ELSE t.initializer.end,
             IdentifierExpression(id.tok.start, id.tok.end, id.tok.value),
             type, modifier, t.initializer))
    ELSE R(t.p, Null)

\* parseVariable after the type: annotated tells whether ":" preceded it
VariableTyped(semicolon, m, id, type, annotated) ==
  VariableBuilt(id, type.n, type.n,
                IF annotated THEN Nullable(type.p, m.n) ELSE m.n,
                VariableTail(IF annotated THEN MatchValue(type.p, "?")
                                          ELSE type.p,
                             semicolon))

\* parseVariable after the identifier token
VariableNamed(semicolon, m, id) ==
  IF ~Ok(id.p) THEN R(id.p, Null)
  ELSE IF checkValue(id.p, ":")
    THEN LET ty == expectToken(MatchValue(id.p, ":"), "Identifier")
         IN VariableTyped(semicolon, m, id, TypeExpression(ty.p, ty.tok),
                          TRUE)
  ELSE IF checkToken(id.p, "Identifier")
    THEN LET typeIdentifierToken == PPeek(id.p)
             pw == PLog(id.p, "Warning",
                     "Type annotation missing ':' in variable declaration",
                     typeIdentifierToken.start, typeIdentifierToken.end)
         IN VariableTyped(semicolon, m, id,
                          TypeExpression(PAdvance(pw), typeIdentifierToken),
                          FALSE)
  ELSE VariableBuilt(id,
                     IdentifierExpression(Locus(0, 0, 0), Locus(0, 0, 0),
                                          "void"),
                     id.tok, Nullable(id.p, m.n),
                     VariableTail(MatchValue(id.p, "?"), semicolon))

\* parseVariable after parseModifier
VariableModified(semicolon, m) ==
  VariableNamed(semicolon, m, expectToken(m.p, "Identifier"))

parseVariable(p, verbose, semicolon) ==
  VariableModified(semicolon,
    parseModifier(IF verbose THEN expectValue(p, "let").p ELSE p))

\* parseReturn after the returned expression
Returning(returnToken, expr) ==
  LET e == expectValue(expr.p, ";")
      p2 == Deref(e.p, <<expr.n>>)
  IN IF Ok(p2)
       THEN R(p2, ReturnStatement(returnToken.tok.start, expr.n.end,
                                  expr.n))
       ELSE R(p2, Null)

parseReturn(p) ==
  LET returnToken == expectValue(p, "return")
      p1 == Deref(returnToken.p, <<returnToken.tok>>)
  IN IF ~Ok(p1) THEN R(p1, Null)
     ELSE IF checkValue(p1, ";")
       THEN R(MatchValue(p1, ";"),
              ReturnStatement(returnToken.tok.start, returnToken.tok.end,
                              Null))
     ELSE Returning(returnToken, parseExpression(p1))

parseBreak(p) ==
  LET breakToken == expectValue(p, "break")
      semicolonToken == expectValue(breakToken.p, ";")
      p1 == Deref(semicolonToken.p, <<breakToken.tok, semicolonToken.tok>>)
  IN IF Ok(p1)
       THEN R(p1, BreakStatement(breakToken.tok.start,
                                 semicolonToken.tok.end))
       ELSE R(p1, Null)

parseContinue(p) ==
  LET continueToken == expectValue(p, "continue")
      semicolonToken == expectValue(continueToken.p, ";")
      p1 == Deref(semicolonToken.p,
                  <<continueToken.tok, semicolonToken.tok>>)
  IN IF Ok(p1)
       THEN R(p1, ContinueStatement(continueToken.tok.start,
                                    semicolonToken.tok.end))
       ELSE R(p1, Null)

\* parseExpressionStatement after the expression
Stated(expr) ==
  IF ~Ok(expr.p) \/ IsNullPtr(expr.n) THEN R(expr.p, Null)
  ELSE LET semicolonToken == expectValue(expr.p, ";")
           p1 == Deref(semicolonToken.p, <<semicolonToken.tok>>)
       IN IF Ok(p1)
            THEN R(p1, ExpressionStatement(expr.n.start,
                         semicolonToken.tok.end, expr.n))
            ELSE R(p1, Null)

parseExpressionStatement(p) == Stated(parseExpression(p))

\* the body of the statement loop after parseStatement
StatementPushed(statements, inBlock, stmt) ==
  IF IsNullPtr(stmt.n)
    THEN StatementLoop(PAdvance(stmt.p), statements, inBlock)
    ELSE StatementLoop(stmt.p, Append(statements, stmt.n), inBlock)

\* the statement loops of parseProgram (inBlock false) and parseBlock
StatementLoop(p, statements, inBlock) ==
  IF ~Ok(p) \/ PIsEof(p) \/ (inBlock /\ checkValue(p, "}"))
    THEN [p |-> p, statements |-> statements]
  ELSE StatementPushed(statements, inBlock, parseStatement(p))

\* parseBlock after its statements
BlockClosed(leftBrace, l) ==
  LET rightBrace == expectValue(l.p, "}")
      p1 == Deref(rightBrace.p, <<leftBrace.tok, rightBrace.tok>>)
  IN IF Ok(p1)
       THEN R(p1, BlockStatement(leftBrace.tok.start, rightBrace.tok.end,
                                 l.statements))
       ELSE R(p1, Null)

\* parseBlock after the left brace
BlockOpened(leftBrace) ==
  BlockClosed(leftBrace, StatementLoop(leftBrace.p, <<>>, TRUE))

parseBlock(p) == BlockOpened(expectValue(p, "{"))

RECURSIVE ParameterList(_, _), FieldLoop(_, _), ScanModifiers(_, _)
RECURSIVE ClassLoop(_, _, _, _), ElifLoop(_, _), CaseLoop(_, _)

\* do { push(parseVariable(false, false)) } while (matchValue(",")): after
\* parseVariable
ParameterPushed(parameters, param) ==
  IF ~Ok(param.p) THEN [p |-> param.p, parameters |-> parameters]
  ELSE IF checkValue(param.p, ",")
    THEN ParameterList(MatchValue(param.p, ","), Append(parameters, param.n))
  ELSE [p |-> param.p, parameters |-> Append(parameters, param.n)]

ParameterList(p, parameters) ==
  ParameterPushed(parameters, parseVariable(p, FALSE, FALSE))

\* the end of parseFunction
FunctionBuilt(identifier, modifier, params, typeIdentifier, body) ==
  IF Ok(body.p)
    THEN R(body.p, FunctionDeclaration(identifier.start, body.n.end,
                     identifier, typeIdentifier.n, modifier,
                     params.parameters, body.n))
    ELSE R(body.p, Null)

\* parseFunction after the return type
FunctionReturning(identifier, modifier, params, typeIdentifier) ==
  FunctionBuilt(identifier, modifier, params, typeIdentifier,
                parseBlock(typeIdentifier.p))

\* parseFunction after the parameters
FunctionTaking(identifier, modifier, params) ==
  FunctionReturning(identifier, modifier, params,
    IF checkValue(params.p, ":")
      THEN LET ty == expectToken(MatchValue(params.p, ":"), "Identifier")
           IN TypeExpression(ty.p, ty.tok)
    ELSE IF checkToken(params.p, "Identifier")
      THEN LET pw == PLog(params.p, "Warning",
                       "Type annotation missing ':' in function declaration",
                       params.p.last_token.end, PPeek(params.p).end)
               ty == expectToken(pw, "Identifier")
           IN TypeExpression(ty.p, ty.tok)
    ELSE R(params.p, IdentifierExpression(Locus(0, 0, 0), Locus(0, 0, 0),
                                          "void")))

\* the parameter list after its last parameter
ParametersClosed(l) ==
  [p |-> expectValue(l.p, ")").p, parameters |-> l.parameters]

\* parseFunction after the left parenthesis
FunctionOpened(identifier, modifier, leftParen) ==
  FunctionTaking(identifier, modifier,
                 IF checkValue(leftParen.p, ")")
                   THEN [p |-> MatchValue(leftParen.p, ")"),
                         parameters |-> <<>>]
                   ELSE ParametersClosed(ParameterList(leftParen.p, <<>>)))

\* parseFunction after the name: an init function has none
FunctionNamed(m, isInit, id) ==
  FunctionOpened(IF isInit
                   THEN IdentifierExpression(Locus(0, 0, 0), Locus(0, 0, 0),
                                             "init")
                   ELSE IdentifierExpression(id.tok.start, id.tok.end,
                                             id.tok.value),
                 Nullable(id.p, m.n),
                 expectValue(MatchValue(id.p, "?"), "("))

\* parseFunction after the check of the accessor position
FunctionIntroduced(m, p2) ==
  FunctionNamed(m, Ok(p2) /\ "Init" \in m.n.modifier,
                IF Ok(p2) /\ "Init" \in m.n.modifier
                  THEN [p |-> p2, tok |-> NoToken]
                  ELSE expectToken(p2, "Identifier"))

\* parseFunction after parseModifier
FunctionModified(m) ==
  LET fn == expectValue(m.p, "fn")
      p1 == Deref(fn.p, <<PPeek(fn.p)>>)
  IN FunctionIntroduced(m,
       IF Ok(p1) /\ isacc(PPeek(p1).value)
         THEN PLog(p1, "Error", "Invalid accessor position for function",
                   PPeek(p1).start, PPeek(p1).end)
         ELSE p1)

parseFunction(p) == FunctionModified(parseModifier(p))

\* the body of the field loop after parseVariable
FieldPushed(fields, field) == FieldLoop(field.p, Append(fields, field.n))

\* while (!isEof() && !checkValue("}")) push(parseVariable(false, true))
FieldLoop(p, fields) ==
  IF ~Ok(p) \/ PIsEof(p) \/ checkValue(p, "}")
    THEN [p |-> p, fields |-> fields]
  ELSE FieldPushed(fields, parseVariable(p, FALSE, TRUE))

\* the end of parseRecord
RecordBuilt(m, id, l) ==
  LET rightBrace == expectValue(l.p, "}")
      identifier == IdentifierExpression(id.tok.start, id.tok.end,
                                         id.tok.value)
  IN IF Ok(rightBrace.p)
       THEN R(rightBrace.p,
              RecordDeclaration(id.tok.start, rightBrace.p.last_token.end,
                                identifier, identifier, m.n, l.fields))
       ELSE R(rightBrace.p, Null)

\* parseRecord after the identifier token
RecordNamed(m, id) ==
  RecordBuilt(m, id, FieldLoop(expectValue(id.p, "{").p, <<>>))

\* parseRecord after parseModifier
RecordModified(m) == RecordNamed(m, expectToken(m.p, "Identifier"))

parseRecord(p) == RecordModified(parseModifier(expectValue(p, "rec").p))

\* the first offset from j whose token is neither an accessor nor a modifier
ScanModifiers(p, j) ==
  IF ~IsNullPtr(PLook(p, j))
       /\ (isacc(PLook(p, j).value) \/ ismod(PLook(p, j).value))
    THEN ScanModifiers(p, j + 1)
    ELSE j

\* the member loop after parseFunction
MethodPushed(fields, methods, method) ==
  ClassLoop(method.p, 0, fields, Append(methods, method.n))

\* the member loop after parseVariable
MemberPushed(fields, methods, field) ==
  ClassLoop(field.p, 0, Append(fields, field.n), methods)

\* the member loop of parseClass.  Its last branch only increments i, and
\* neither the loop condition nor look(i) can change once index_ + i is past
\* the last token: from there the loop runs on without reading another
\* token, which is the fault "spin".
ClassLoop(p, i, fields, methods) ==
  IF ~Ok(p) \/ PIsEof(p) \/ checkValue(p, "}")
    THEN [p |-> p, fields |-> fields, methods |-> methods]
  ELSE LET token_i == PLook(p, i)
           token_j == PLook(p, ScanModifiers(p, i))
           pi == [p EXCEPT !.index = @ + i]
       IN IF IsNullPtr(token_i)
            THEN [p |-> Fault(p, "spin"), fields |-> fields,
                  methods |-> methods]
          ELSE IF isacc(token_i.value) \/ ismod(token_i.value)
            THEN IF ~IsNullPtr(token_j) /\ token_j.value = "fn"
                   THEN MethodPushed(fields, methods, parseFunction(pi))
                   ELSE MemberPushed(fields, methods,
                                     parseVariable(pi, FALSE, TRUE))
          ELSE IF token_i.value = "fn"
            THEN MethodPushed(fields, methods, parseFunction(pi))
          ELSE ClassLoop(p, i + 1, fields, methods)

\* the end of parseClass
ClassBuilt(m, id, l) ==
  LET rightBrace == expectValue(l.p, "}")
      identifier == IdentifierExpression(id.tok.start, id.tok.end,
                                         id.tok.value)
  IN IF Ok(rightBrace.p)
       THEN R(rightBrace.p,
              ClassDeclaration(id.tok.start, rightBrace.p.last_token.end,
                               identifier, identifier, m.n, l.fields,
                               l.methods))
       ELSE R(rightBrace.p, Null)

\* parseClass after the identifier token
ClassNamed(m, id) ==
  ClassBuilt(m, id, ClassLoop(expectValue(id.p, "{").p, 0, <<>>, <<>>))

\* parseClass after parseModifier
ClassModified(m) == ClassNamed(m, expectToken(m.p, "Identifier"))

parseClass(p) == ClassModified(parseModifier(expectValue(p, "cls").p))

\* the body of the elif loop after the branch's block
ElifPushed(branches, elifCondition, elifThenBranch) ==
  LET p1 == Deref(elifThenBranch.p, <<elifCondition.n>>)
      branch == IfConditional(elifCondition.n.start, elifThenBranch.n.end,
                              elifCondition.n, elifThenBranch.n, <<>>, Null)
  IN IF ~Ok(p1) THEN [p |-> p1, branches |-> branches]
     ELSE IF checkValue(p1, "elif")
       THEN ElifLoop(MatchValue(p1, "elif"), Append(branches, branch))
     ELSE [p |-> p1, branches |-> Append(branches, branch)]

\* the body of the elif loop after the branch's condition
ElifConditioned(branches, elifCondition) ==
  ElifPushed(branches, elifCondition, parseBlock(elifCondition.p))

\* do { push(If(parseExpression(), parseBlock())) } while (matchValue("elif"))
ElifLoop(p, branches) == ElifConditioned(branches, parseExpression(p))

\* the end of parseIf
IfBuilt(condition, thenBranch, elif, elseBranch) ==
  LET p1 == Deref(elseBranch.p, <<condition.n>>)
  IN IF Ok(p1)
       THEN R(p1, IfConditional(condition.n.start,
                    IF ~IsNullPtr(elseBranch.n) THEN elseBranch.n.end
                    ELSE IF elif.branches # <<>>
                      THEN elif.branches[Len(elif.branches)].end
                    ELSE thenBranch.n.end,
                    condition.n, thenBranch.n, elif.branches, elseBranch.n))
       ELSE R(p1, Null)

\* parseIf after the elif branches
IfWithElifs(condition, thenBranch, elif) ==
  IfBuilt(condition, thenBranch, elif,
          IF checkValue(elif.p, "else")
            THEN parseBlock(MatchValue(elif.p, "else"))
            ELSE R(elif.p, Null))

\* parseIf after the then branch
IfWithThen(condition, thenBranch) ==
  IfWithElifs(condition, thenBranch,
              IF checkValue(thenBranch.p, "elif")
                THEN ElifLoop(MatchValue(thenBranch.p, "elif"), <<>>)
                ELSE [p |-> thenBranch.p, branches |-> <<>>])

\* parseIf after the condition
IfConditioned(condition) == IfWithThen(condition, parseBlock(condition.p))

parseIf(p) == IfConditioned(parseExpression(expectValue(p, "if").p))

\* the default branch of the case loop after its block
DefaultPushed(cases, defaultBlock) ==
  IF Ok(defaultBlock.p)
    THEN CaseLoop(defaultBlock.p,
           Append(cases, Conditional(defaultBlock.n.start,
                                     defaultBlock.n.end, Null,
                                     defaultBlock.n)))
    ELSE [p |-> defaultBlock.p, cases |-> cases]

\* the case branch of the case loop after its block
CasePushed(cases, caseExpression, caseBlock) ==
  LET p1 == Deref(caseBlock.p, <<caseExpression.n>>)
  IN IF Ok(p1)
       THEN CaseLoop(p1,
              Append(cases, Conditional(caseExpression.n.start,
                                        caseBlock.n.end, caseExpression.n,
                                        caseBlock.n)))
       ELSE [p |-> p1, cases |-> cases]

\* the case branch of the case loop after its expression
CaseMatching(cases, caseExpression) ==
  CasePushed(cases, caseExpression, parseBlock(caseExpression.p))

\* the case loop of parseSwitch
CaseLoop(p, cases) ==
  IF ~Ok(p) \/ PIsEof(p) \/ checkValue(p, "}")
    THEN [p |-> p, cases |-> cases]
  ELSE IF checkValue(p, "default")
    THEN DefaultPushed(cases, parseBlock(MatchValue(p, "default")))
  ELSE CaseMatching(cases, parseExpression(expectValue(p, "case").p))

\* the end of parseSwitch: cases.back() of an empty vector is the fault
\* "emptyback"
SwitchBuilt(switchExpression, l) ==
  LET rightBrace == expectValue(l.p, "}")
      p1 == Deref(rightBrace.p, <<switchExpression.n>>)
      p2 == IF l.cases = <<>> THEN Fault(p1, "emptyback") ELSE p1
  IN IF Ok(p2)
       THEN R(p2, SwitchConditional(switchExpression.n.start,
                    l.cases[Len(l.cases)].end, switchExpression.n, l.cases))
       ELSE R(p2, Null)

\* parseSwitch after the switch expression
Switching(switchExpression) ==
  SwitchBuilt(switchExpression,
              CaseLoop(expectValue(switchExpression.p, "{").p, <<>>))

parseSwitch(p) == Switching(parseExpression(expectValue(p, "switch").p))

\* the end of parseWhile
WhileBuilt(condition, body) ==
  LET p1 == Deref(body.p, <<condition.n>>)
  IN IF Ok(p1)
       THEN R(p1, WhileConditional(condition.n.start, body.n.end,
                                   condition.n, body.n))
       ELSE R(p1, Null)

\* parseWhile after the condition
WhileConditioned(condition) == WhileBuilt(condition, parseBlock(condition.p))

parseWhile(p) == WhileConditioned(parseExpression(expectValue(p, "while").p))

\* the end of parseFor: first is the node whose start is the loop's, the
\* initializer or else the condition
ForBuilt(first, initializer, condition, increment, body) ==
  LET p1 == Deref(body.p, <<first>>)
  IN IF Ok(p1)
       THEN R(p1, ForConditional(first.start, body.n.end, initializer,
                                 condition, increment, body.n))
       ELSE R(p1, Null)

\* the C-style branch of parseFor after the increment
ForStepped(initializer, condition, increment) ==
  ForBuilt(initializer.n, initializer.n, condition.n, increment.n,
           parseBlock(increment.p))

\* the increment of a C-style loop after its expression
IncrementClosed(e) == R(expectValue(e.p, ")").p, e.n)

\* the C-style branch of parseFor after the ";" of the condition
ForSeparated(initializer, condition, semicolon) ==
  ForStepped(initializer, condition,
             IF checkValue(semicolon.p, ")")
               THEN R(MatchValue(semicolon.p, ")"), Null)
               ELSE IncrementClosed(parseExpression(semicolon.p)))

\* the C-style branch of parseFor after the condition
ForConditioned(initializer, condition) ==
  ForSeparated(initializer, condition, expectValue(condition.p, ";"))

\* the C-style branch of parseFor after the initializer
ForInitialized(initializer) ==
  ForConditioned(initializer, parseExpression(initializer.p))

\* a faulty for-each branch, which keeps the iterable as the condition
ForIteratingCondition(initializer, iterable) ==
  ForBuilt(initializer.n, initializer.n, iterable.n, Null,
           parseBlock(expectValue(iterable.p, ")").p))

\* the for-each branch of parseFor after the iterable
ForIterating(initializer, iterable) ==
  ForBuilt(initializer.n, initializer.n, Null, iterable.n,
           parseBlock(expectValue(iterable.p, ")").p))

\* the for-each branch of parseFor after the loop variable
ForEach(initializer) ==
  ForIterating(initializer,
               parseExpression(expectValue(initializer.p, "in").p))

\* the condition-only branch of parseFor after the condition
ForOnly(condition) ==
  ForBuilt(condition.n, Null, condition.n, Null,
           parseBlock(expectValue(condition.p, ")").p))

\* parseFor after "for" and "("
ForOpened(p0) ==
  IF checkValue(p0, "let")
    THEN ForInitialized(parseVariable(p0, FALSE, TRUE))
  ELSE IF checkToken(p0, "Identifier")
          /\ ~IsNullPtr(PLook(p0, 1)) /\ PLook(p0, 1).value = ":"
    THEN ForEach(parseVariable(p0, FALSE, FALSE))
  ELSE IF checkToken(p0, "Identifier") /\ IsNullPtr(PLook(p0, 1))
    THEN R(Fault(p0, "nullderef"), Null)
  ELSE ForOnly(parseExpression(p0))

parseFor(p) == ForOpened(expectValue(expectValue(p, "for").p, "(").p)

\* the first test of parseStatement's chain of tests that succeeds
StatementTest(p) ==
  IF ~Ok(p) THEN "fault"
  ELSE IF checkValue(p, "return") THEN "return"
  ELSE IF checkValue(p, "break") THEN "break"
  ELSE IF checkValue(p, "continue") THEN "continue"
  ELSE IF checkValue(p, "{") THEN "{"
  ELSE IF checkValue(p, "let") THEN "let"
  ELSE IF ~checkValue(p, "fn") /\ IsNullPtr(PPeek(p)) THEN "nullderef"
  ELSE IF checkValue(p, "fn") \/ isacc(PPeek(p).value) THEN "fn"
  ELSE IF checkValue(p, "rec") THEN "rec"
  ELSE IF checkValue(p, "cls") THEN "cls"
  ELSE IF checkValue(p, "if") THEN "if"
  ELSE IF checkValue(p, "switch") THEN "switch"
  ELSE IF checkValue(p, "while") THEN "while"
  ELSE IF checkValue(p, "for") THEN "for"
  ELSE "expression"

\* the branch of parseStatement a test selects
StatementOf(test, p) ==
  CASE test = "fault" -> R(p, Null)
    [] test = "return" -> parseReturn(p)
    [] test = "break" -> parseBreak(p)
    [] test = "continue" -> parseContinue(p)
    [] test = "{" -> parseBlock(p)
    [] test = "let" -> parseVariable(p, TRUE, TRUE)
    [] test = "nullderef" -> R(Fault(p, "nullderef"), Null)
    [] test = "fn" -> parseFunction(p)
    [] test = "rec" -> parseRecord(p)
    [] test = "cls" -> parseClass(p)
    [] test = "if" -> parseIf(p)
    [] test = "switch" -> parseSwitch(p)
    [] test = "while" -> parseWhile(p)
    [] test = "for" -> parseFor(p)
    [] test = "expression" -> parseExpressionStatement(p)

parseStatement(p) == StatementOf(StatementTest(p), p)

\* the end of parseProgram
ProgramBuilt(l) ==
  IF Ok(l.p)
    THEN R(l.p, Program(
           IF l.statements = <<>> THEN Locus(1, 1, 0)
             ELSE l.statements[1].start,
           IF l.statements = <<>> THEN Locus(1, 1, 0)
             ELSE l.statements[Len(l.statements)].end,
           l.statements))
    ELSE R(l.p, Null)

parseProgram(p) == ProgramBuilt(StatementLoop(p, <<>>, FALSE))

\* Parser::parse: lex the source, then parseProgram from index_ 0
parse(src) == parseProgram(ParserInit(lex(src).tokens))

(***************************************************************************)
(* Semantic types (type.h, var.h, func.h, rec.h, cls.h).  A Type is its    *)
(* kind and name; the derived classes add their members, and copying one   *)
(* into a Type keeps the kind and the name only.                           *)
(***************************************************************************)
Type(kind, name) == [kind |-> kind, name |-> name]

\* the primitive singletons the analyzer names; the others are written out
\* in the list primitives
none_ty == Type("None", "none")
null_ty == Type("Null", "null")
bool_ty == Type("Boolean", "bool")
i64_ty == Type("I64", "i64")
f64_ty == Type("F64", "f64")
char_ty == Type("Character", "char")
string_ty == Type("String", "str")

\* Type::isValid
TypeIsValid(t) == t.name # "" /\ t.kind # "None"

\* Variable::isValid, Function::isValid, Record::isValid, Class::isValid
NameIsValid(x) == x.name # ""

\* Type::size
TypeSize(t) ==
  CASE t.kind \in {"I8", "U8", "Boolean", "Character"} -> 1
    [] t.kind \in {"I16", "U16"} -> 2
    [] t.kind \in {"I32", "U32", "F32"} -> 4
    [] t.kind \in {"I64", "U64", "F64"} -> 8
    [] t.kind \in {"I128", "U128", "F128"} -> 16
    [] OTHER -> 0

isSimilarTo(a, b) == a.kind = b.kind

\* Type::operator==
TypeEquals(a, b) == a.name = b.name

isInteger(t) ==
  t.kind \in {"I8", "I16", "I32", "I64", "I128",
              "U8", "U16", "U32", "U64", "U128"}

isFloatingPoint(t) == t.kind \in {"F16", "F32", "F64", "F128"}

isNumeric(t) == isInteger(t) \/ isFloatingPoint(t)

isTruthy(t) == t.kind \notin {"None", "Void", "Null"}

promoteTypes(a, b) ==
  IF isSimilarTo(a, b) THEN a
  ELSE IF isFloatingPoint(a) /\ isFloatingPoint(b)
    THEN IF TypeSize(a) >= TypeSize(b) THEN a ELSE b
  ELSE IF isInteger(a) /\ isInteger(b)
    THEN IF TypeSize(a) >= TypeSize(b) THEN a ELSE b
  ELSE IF isFloatingPoint(a) /\ isInteger(b) THEN a
  ELSE IF isInteger(a) /\ isFloatingPoint(b) THEN b
  ELSE none_ty

\* a faulty canAssignType, which lets an integer into any integer
canAssignTypeAnyWidth(to, from) ==
  IF isSimilarTo(to, from) THEN TRUE
  ELSE IF isFloatingPoint(to) /\ isInteger(from) THEN TRUE
  ELSE isInteger(to) /\ isInteger(from)

canAssignType(to, from) ==
  IF isSimilarTo(to, from) THEN TRUE
  ELSE IF isFloatingPoint(to) /\ isInteger(from) THEN TRUE
  ELSE IF isInteger(to) /\ isInteger(from)
    THEN TypeSize(from) <= TypeSize(to)
  ELSE FALSE

Variable(name, type, accessor, modifier) ==
  [kind |-> "Variable", name |-> name, type |-> type,
   accessor |-> accessor, modifier |-> modifier]

Function(name, return_type, parameters, access, modifier) ==
  [kind |-> "Function", name |-> name, return_type |-> return_type,
   parameters |-> parameters, access |-> access, modifier |-> modifier]

Record(name, fields) == [kind |-> "Record", name |-> name, fields |-> fields]

Class(name, fields, methods) ==
  [kind |-> "Class", name |-> name, fields |-> fields, methods |-> methods]

\* a derived object copied into a Type
Slice(x) == Type(x.kind, x.name)

\* static_cast<Function>(type): Type converts to its name, and the Function
\* is built by Function(const std::string &name)
FunctionFromType(t) == Function(t.name, none_ty, <<>>, "Public", {})

isValidArguments(func, arg_types) ==
  /\ Len(arg_types) = Len(func.parameters)
  /\ \A i \in DOMAIN arg_types :
       \/ isSimilarTo(arg_types[i], func.parameters[i].type)
       \/ isNumeric(arg_types[i]) /\ isNumeric(func.parameters[i].type)

\* the index of the first element of list with the name, 0 if there is none
Find(list, name) ==
  LET I == {i \in DOMAIN list : list[i].name = name}
  IN IF I = {} THEN 0 ELSE CHOOSE i \in I : \A j \in I : i <= j

hasField(rec, field_name, access) ==
  LET i == Find(rec.fields, field_name)
  IN i # 0 /\ canAccess(rec.fields[i].accessor, access)

\* called only after hasField, so the throwing branch is never taken
getField(rec, field_name, access) == rec.fields[Find(rec.fields, field_name)]

hasMethod(cls, method_name, access) ==
  LET i == Find(cls.methods, method_name)
  IN i # 0 /\ canAccess(cls.methods[i].access, access)

getMethod(cls, method_name, access) ==
  cls.methods[Find(cls.methods, method_name)]

(***************************************************************************)
(* Scopes (scope.h).  The chain of parents of current_scope is a sequence, *)
(* the global scope first and current_scope last.                          *)
(***************************************************************************)
ScopeKind ==
  [Global |-> 0, Block |-> 1, Function |-> 2, Loop |-> 3, Class |-> 4,
   Record |-> 5]

\* bit k of n
Bit(n, k) == (n \div (2 ^ k)) % 2

\* operator| and operator& of flags.h on the underlying int; the values
\* that occur fit the low three bits
BitOr(a, b) ==
  (IF Bit(a, 0) = 1 \/ Bit(b, 0) = 1 THEN 1 ELSE 0)
  + (IF Bit(a, 1) = 1 \/ Bit(b, 1) = 1 THEN 2 ELSE 0)
  + (IF Bit(a, 2) = 1 \/ Bit(b, 2) = 1 THEN 4 ELSE 0)

BitAnd(a, b) ==
  (IF Bit(a, 0) = 1 /\ Bit(b, 0) = 1 THEN 1 ELSE 0)
  + (IF Bit(a, 1) = 1 /\ Bit(b, 1) = 1 THEN 2 ELSE 0)
  + (IF Bit(a, 2) = 1 /\ Bit(b, 2) = 1 THEN 4 ELSE 0)

hasFlag(flags, flag) == BitAnd(flags, flag) = flag

Scope(name, kind) ==
  [name |-> name, kind |-> kind, variables |-> <<>>, functions |-> <<>>,
   classes |-> <<>>, records |-> <<>>]

primitives ==
  <<Type("I8", "i8"), Type("I16", "i16"), Type("I32", "i32"), i64_ty,
    Type("I128", "i128"), Type("U8", "u8"), Type("U16", "u16"),
    Type("U32", "u32"), Type("U64", "u64"), Type("U128", "u128"),
    Type("F16", "f16"), Type("F32", "f32"), f64_ty, Type("F128", "f128"),
    bool_ty, char_ty, string_ty, Type("Void", "void"), null_ty>>

\* the innermost scope whose list (variables, functions, ...) has the name,
\* 0 if no scope has it
Holder(scopes, list, name) ==
  LET D == {d \in DOMAIN scopes : Find(scopes[d][list], name) # 0}
  IN IF D = {} THEN 0 ELSE CHOOSE d \in D : \A e \in D : e <= d

Held(scopes, list, name) ==
  scopes[Holder(scopes, list, name)][list][
    Find(scopes[Holder(scopes, list, name)][list], name)]

hasVariable(scopes, name) == Holder(scopes, "variables", name) # 0
hasFunction(scopes, name) == Holder(scopes, "functions", name) # 0
hasClass(scopes, name) == Holder(scopes, "classes", name) # 0
hasRecord(scopes, name) == Holder(scopes, "records", name) # 0

\* a faulty getVariable, which looks in the outermost scope first
getVariableOutermost(scopes, name) ==
  LET D == {d \in DOMAIN scopes : Find(scopes[d].variables, name) # 0}
      outermost == CHOOSE d \in D : \A e \in D : d <= e
  IN IF D = {} THEN Variable("", none_ty, "Public", {})
     ELSE scopes[outermost].variables[
            Find(scopes[outermost].variables, name)]

getVariable(scopes, name) ==
  IF hasVariable(scopes, name) THEN Held(scopes, "variables", name)
  ELSE Variable("", none_ty, "Public", {})

getFunction(scopes, name) ==
  IF hasFunction(scopes, name) THEN Held(scopes, "functions", name)
  ELSE Function("", none_ty, <<>>, "Public", {})

getClass(scopes, name) ==
  IF hasClass(scopes, name) THEN Held(scopes, "classes", name)
  ELSE Class("", <<>>, <<>>)

getRecord(scopes, name) ==
  IF hasRecord(scopes, name) THEN Held(scopes, "records", name)
  ELSE Record("", <<>>)

hasType(scopes, name) ==
  \/ Find(primitives, name) # 0
  \/ hasClass(scopes, name)
  \/ hasRecord(scopes, name)

getType(scopes, name) ==
  IF Find(primitives, name) # 0 THEN primitives[Find(primitives, name)]
  ELSE IF hasClass(scopes, name) THEN Slice(getClass(scopes, name))
  ELSE IF hasRecord(scopes, name) THEN Slice(getRecord(scopes, name))
  ELSE Type("None", "")

(***************************************************************************)
(* Analyzer (analysis.cpp).  An analyzer state a holds the scope chain,    *)
(* the accumulated errors, what Error::log printed, the trace of scope     *)
(* entries and exits, and the fault of dereferencing a null expression.    *)
(***************************************************************************)
AnalyzerInit ==
  [scopes |-> <<>>, errors |-> <<>>, log |-> <<>>, trace |-> <<>>,
   inferred |-> <<>>, fault |-> "none"]

AOk(a) == a.fault = "none"

\* errors.push_back(Error(Error, description, ..., start, end))
Push(a, description, start, end) ==
  IF AOk(a)
    THEN [a EXCEPT !.errors = Append(a.errors,
                                     Diag("Error", description, start, end))]
    ELSE a

\* err.log() of an Error that is not pushed
ALog(a, description, start, end) ==
  IF AOk(a)
    THEN [a EXCEPT !.log = Append(a.log,
                                  Diag("Error", description, start, end))]
    ELSE a

T(a, t) == [a |-> a, t |-> t]

\* the type a statement got from inferExpression for the expression at a
\* locus, kept for inspection
Note(r, at) ==
  IF AOk(r.a)
    THEN [r.a EXCEPT !.inferred = Append(@, [at |-> at, type |-> r.t])]
    ELSE r.a

enterScope(a, name, kind) ==
  IF ~AOk(a) THEN a
  ELSE LET k == IF a.scopes # <<>>
                  THEN BitOr(a.scopes[Len(a.scopes)].kind, kind)
                  ELSE kind
       IN [a EXCEPT !.scopes = Append(a.scopes, Scope(name, k)),
                    !.trace = Append(a.trace,
                                [op |-> "enter", name |-> name, kind |-> k,
                                 depth |-> Len(a.scopes) + 1])]

\* a faulty exitScope, which leaves the current scope open
exitScopeKept(a) == a

exitScope(a) ==
  IF ~AOk(a) THEN a
  ELSE IF a.scopes = <<>>
    THEN [a EXCEPT !.trace = Append(a.trace,
                               [op |-> "exit", name |-> "",
                                kind |-> ScopeKind.Global, depth |-> 0])]
  ELSE [a EXCEPT !.scopes = SubSeq(a.scopes, 1, Len(a.scopes) - 1),
                 !.trace = Append(a.trace,
                             [op |-> "exit",
                              name |-> a.scopes[Len(a.scopes)].name,
                              kind |-> a.scopes[Len(a.scopes)].kind,
                              depth |-> Len(a.scopes)])]

\* current_scope->kind
CurrentKind(a) == a.scopes[Len(a.scopes)].kind

\* current_scope->addVariable / addFunction / addClass / addRecord
AddTo(a, list, x) ==
  IF AOk(a)
    THEN [a EXCEPT !.scopes[Len(a.scopes)][list] = Append(@, x)]
    ELSE a

RECURSIVE inferExpression(_, _), InferAll(_, _, _, _)

\* the body of the loop of InferAll after inferExpression
InferPushed(exprs, i, types, r) ==
  InferAll(r.a, exprs, i + 1, Append(types, r.t))

\* for (arg : exprs) types.push_back(inferExpression(*arg))
InferAll(a, exprs, i, types) ==
  IF ~AOk(a) \/ i > Len(exprs) THEN [a |-> a, types |-> types]
  ELSE InferPushed(exprs, i, types, inferExpression(a, exprs[i]))

\* inferBinary after both operands
BothTyped(left_type, right_type) ==
  T(right_type.a, promoteTypes(left_type.t, right_type.t))

\* inferBinary after the left operand
LeftTyped(expr, left_type) ==
  BothTyped(left_type, inferExpression(left_type.a, expr.right))

inferBinary(a, expr) == LeftTyped(expr, inferExpression(a, expr.left))

inferUnary(a, expr) == inferExpression(a, expr.operand)

inferLiteral(a, expr) ==
  T(a, CASE expr.type = "Integer" -> i64_ty
         [] expr.type = "Float" -> f64_ty
         [] expr.type = "String" -> string_ty
         [] expr.type = "Character" -> char_ty
         [] expr.type = "Boolean" -> bool_ty
         [] expr.type = "Null" -> null_ty
         [] OTHER -> none_ty)

inferIdentifier(a, expr) ==
  IF hasVariable(a.scopes, expr.name)
    THEN T(a, getVariable(a.scopes, expr.name).type)
  ELSE IF hasFunction(a.scopes, expr.name)
    THEN T(a, Slice(getFunction(a.scopes, expr.name)))
  ELSE IF hasClass(a.scopes, expr.name)
    THEN T(a, Slice(getClass(a.scopes, expr.name)))
  ELSE IF hasRecord(a.scopes, expr.name)
    THEN T(a, Slice(getRecord(a.scopes, expr.name)))
  ELSE IF hasType(a.scopes, expr.name)
    THEN T(a, getType(a.scopes, expr.name))
  ELSE T(Push(a, "Undeclared identifier: " \o expr.name, expr.start,
              expr.end),
         none_ty)

\* inferIndex after the array and the index
IndexTyped(array_type, index_type) ==
  T(index_type.a,
    IF array_type.t.kind = "Array" /\ isInteger(index_type.t)
      THEN array_type.t
      ELSE none_ty)

\* inferIndex after the array
ArrayTyped(expr, array_type) ==
  IndexTyped(array_type, inferExpression(array_type.a, expr.index))

inferIndex(a, expr) == ArrayTyped(expr, inferExpression(a, expr.array))

\* inferArray after the first element
ElementTyped(element_type) ==
  T(element_type.a, Type("Array", "array" \o element_type.t.name))

inferArray(a, expr) ==
  IF expr.elements = <<>> THEN T(a, none_ty)
  ELSE ElementTyped(inferExpression(a, expr.elements[1]))

\* inferCall after the callee and the arguments
ArgumentsTyped(expr, callee_type, args) ==
  IF callee_type.t.kind = "Function"
    THEN LET func == FunctionFromType(callee_type.t)
         IN IF isValidArguments(func, args.types)
              THEN T(args.a, func.return_type)
              ELSE T(Push(Push(args.a,
                               "Function called with invalid arguments.",
                               expr.start, expr.end),
                          "Called function does not exist.",
                          expr.start, expr.end),
                     none_ty)
  ELSE IF callee_type.t.kind = "Class"
    THEN LET cls == getClass(callee_type.a.scopes, callee_type.t.name)
         IN IF ~hasMethod(cls, "init", "Public")
              THEN T(Push(args.a,
                          "Class has no accessible constructor: "
                            \o cls.name,
                          expr.start, expr.end),
                     none_ty)
            ELSE IF ~NameIsValid(getMethod(cls, "init", "Public"))
              THEN T(Push(args.a,
                          "Class constructor is not accessible: "
                            \o cls.name,
                          expr.start, expr.end),
                     none_ty)
            ELSE IF isValidArguments(getMethod(cls, "init", "Public"),
                                     args.types)
              THEN T(args.a, Slice(cls))
            ELSE T(Push(args.a,
                        "Invalid constructor arguments for class: "
                          \o cls.name,
                        expr.start, expr.end),
                   none_ty)
  ELSE T(Push(callee_type.a, "Called function does not exist.", expr.start,
              expr.end),
         none_ty)

\* inferCall after the callee
CalleeTyped(expr, callee_type) ==
  ArgumentsTyped(expr, callee_type,
                 InferAll(callee_type.a, expr.arguments, 1, <<>>))

inferCall(a, expr) == CalleeTyped(expr, inferExpression(a, expr.callee))

\* the method call of inferAttribute after the arguments
MethodTyped(expr, method, args) ==
  IF isValidArguments(method, args.types)
    THEN T(args.a, method.return_type)
    ELSE T(Push(args.a, "Method called with invalid arguments.",
                expr.start, expr.end),
           none_ty)

\* inferAttribute after the object
ObjectTyped(expr, object_type) ==
  LET a1 == object_type.a
      attr == expr.attribute
  IN IF object_type.t.kind = "Class"
       THEN LET cls == getClass(a1.scopes, object_type.t.name)
            IN IF attr.node \in {"Identifier", "ArrayIdentifier"}
                 THEN IF hasField(cls, attr.name, "Public")
                        THEN T(a1, getField(cls, attr.name, "Public").type)
                        ELSE T(Push(a1, "Unknown attribute: " \o attr.name,
                                    expr.start, expr.end),
                               none_ty)
               ELSE IF attr.node = "Call"
                 THEN IF ~IsNullPtr(attr.callee)
                         /\ attr.callee.node \in {"Identifier",
                                                  "ArrayIdentifier"}
                        THEN IF hasMethod(cls, attr.callee.name, "Public")
                               THEN MethodTyped(expr,
                                      getMethod(cls, attr.callee.name,
                                                "Public"),
                                      InferAll(a1, attr.arguments, 1, <<>>))
                               ELSE T(Push(a1, "Unknown method: "
                                             \o attr.callee.name,
                                           expr.start, expr.end),
                                      none_ty)
                        ELSE T(Push(a1,
                                    "Unknown method attribute expression.",
                                    expr.start, expr.end),
                               none_ty)
               ELSE T(Push(a1, "Unknown attribute type", expr.start,
                           expr.end),
                      none_ty)
     ELSE IF object_type.t.kind = "Record"
       THEN LET rec == getRecord(a1.scopes, object_type.t.name)
                isId == attr.node \in {"Identifier", "ArrayIdentifier"}
            IN IF isId /\ hasField(rec, attr.name, "Public")
                 THEN T(a1, getField(rec, attr.name, "Public").type)
                 ELSE T(Push(IF isId
                               THEN Push(a1,
                                         "Unknown attribute: " \o attr.name,
                                         expr.start, expr.end)
                               ELSE a1,
                             "Record has no accessible attribute.",
                             expr.start, expr.end),
                        none_ty)
     ELSE T(a1, none_ty)

inferAttribute(a, expr) == ObjectTyped(expr, inferExpression(a, expr.object))

\* the dynamic_cast chain; a null expression is dereferenced by the caller
inferExpression(a, expr) ==
  CASE ~AOk(a) -> T(a, none_ty)
    [] AOk(a) /\ IsNullPtr(expr) ->
         T([a EXCEPT !.fault = "nullderef"], none_ty)
    [] AOk(a) /\ expr.node = "Binary" -> inferBinary(a, expr)
    [] AOk(a) /\ expr.node = "Unary" -> inferUnary(a, expr)
    [] AOk(a) /\ expr.node = "Literal" -> inferLiteral(a, expr)
    [] AOk(a) /\ expr.node \in {"Identifier", "ArrayIdentifier"} ->
         inferIdentifier(a, expr)
    [] AOk(a) /\ expr.node = "Index" -> inferIndex(a, expr)
    [] AOk(a) /\ expr.node = "Array" -> inferArray(a, expr)
    [] AOk(a) /\ expr.node = "Call" -> inferCall(a, expr)
    [] AOk(a) /\ expr.node = "Attribute" -> inferAttribute(a, expr)
    [] OTHER ->
         T(Push(a, "Unknown expression type.", expr.start, expr.end), none_ty)

(***************************************************************************)
(* Analyzer: declarations and statements.                                  *)
(***************************************************************************)
RECURSIVE DeclareAll(_, _, _, _, _), MethodsOf(_, _, _, _)
RECURSIVE analyzeStatement(_, _), AnalyzeAll(_, _, _)
RECURSIVE analyzeIfConditional(_, _), AnalyzeElifs(_, _, _)
RECURSIVE analyzeFunctionDeclaration(_, _), AnalyzeMethods(_, _, _)
RECURSIVE DeclareParameters(_, _, _), AnalyzeCases(_, _, _)

\* the body of the loop of DeclareAll after the type of declaration i
MemberTyped(decls, i, out, what, type) ==
  DeclareAll(IF ~TypeIsValid(type.t)
               THEN Push(type.a, what \o decls[i].identifier.name,
                         decls[i].start, decls[i].end)
               ELSE type.a,
             decls, i + 1,
             Append(out, Variable(decls[i].identifier.name, type.t,
                                  decls[i].modifier.accessor,
                                  decls[i].modifier.modifier)),
             what)

\* the loops that turn field or parameter declarations into Variables,
\* pushing "<what><name>" for each whose type is not valid
DeclareAll(a, decls, i, out, what) ==
  IF ~AOk(a) \/ i > Len(decls) THEN [a |-> a, vars |-> out]
  ELSE MemberTyped(decls, i, out, what, inferExpression(a, decls[i].type))

\* declareVariable after the type
VariableTypeInferred(decl, var_type) ==
  LET a1 == IF ~TypeIsValid(var_type.t)
              THEN Push(var_type.a,
                        "Invalid type for variable declaration: "
                          \o decl.identifier.name,
                        decl.start, decl.end)
              ELSE var_type.a
      a2 == AddTo(a1, "variables",
                  Variable(decl.identifier.name, var_type.t,
                           decl.modifier.accessor, decl.modifier.modifier))
  IN [a |-> a2, var |-> getVariable(a2.scopes, decl.identifier.name)]

declareVariable(a, decl) ==
  VariableTypeInferred(decl, inferExpression(a, decl.type))

\* declareFunction after the parameters
ParametersDeclared(decl, return_type, ps) ==
  LET a2 == AddTo(ps.a, "functions",
                  Function(decl.identifier.name, return_type.t, ps.vars,
                           decl.modifier.accessor, decl.modifier.modifier))
  IN [a |-> a2, func |-> getFunction(a2.scopes, decl.identifier.name)]

\* declareFunction after the return type
ReturnTypeInferred(decl, return_type) ==
  ParametersDeclared(decl, return_type,
    DeclareAll(IF ~TypeIsValid(return_type.t)
                 THEN Push(return_type.a,
                           "Invalid return type for function declaration: "
                             \o decl.identifier.name,
                           decl.start, decl.end)
                 ELSE return_type.a,
               decl.parameters, 1, <<>>,
               "Invalid type for function parameter: "))

declareFunction(a, decl) ==
  ReturnTypeInferred(decl, inferExpression(a, decl.type))

\* the body of the loop of MethodsOf after the parameters of method i
MethodParametersDeclared(decls, i, methods, return_type, ps) ==
  MethodsOf(ps.a, decls, i + 1,
            Append(methods,
                   Function(decls[i].identifier.name, return_type.t, ps.vars,
                            decls[i].modifier.accessor,
                            decls[i].modifier.modifier)))

\* the body of the loop of MethodsOf after the return type of method i
MethodTypeInferred(decls, i, methods, return_type) ==
  MethodParametersDeclared(decls, i, methods, return_type,
    DeclareAll(IF ~TypeIsValid(return_type.t)
                 THEN Push(return_type.a,
                           "Invalid return type for class method: "
                             \o decls[i].identifier.name,
                           decls[i].start, decls[i].end)
                 ELSE return_type.a,
               decls[i].parameters, 1, <<>>,
               "Invalid type for method parameter: "))

\* the loop of declareClass over the method declarations
MethodsOf(a, decls, i, methods) ==
  IF ~AOk(a) \/ i > Len(decls) THEN [a |-> a, methods |-> methods]
  ELSE MethodTypeInferred(decls, i, methods,
                          inferExpression(a, decls[i].type))

\* declareClass after the methods
MethodsDeclared(decl, fs, ms) ==
  LET a1 == AddTo(ms.a, "classes",
                  Class(decl.identifier.name, fs.vars, ms.methods))
  IN [a |-> a1, cls |-> getClass(a1.scopes, decl.identifier.name)]

\* declareClass after the fields
FieldsDeclared(decl, fs) ==
  MethodsDeclared(decl, fs, MethodsOf(fs.a, decl.methods, 1, <<>>))

declareClass(a, decl) ==
  FieldsDeclared(decl, DeclareAll(a, decl.fields, 1, <<>>,
                                  "Invalid type for class field: "))

\* declareRecord after the fields
RecordFieldsDeclared(decl, fs) ==
  LET a1 == AddTo(fs.a, "records", Record(decl.identifier.name, fs.vars))
  IN [a |-> a1, record |-> getRecord(a1.scopes, decl.identifier.name)]

declareRecord(a, decl) ==
  RecordFieldsDeclared(decl, DeclareAll(a, decl.fields, 1, <<>>,
                                        "Invalid type for record field: "))

\* for (stmt : statements) analyzeStatement(*stmt)
AnalyzeAll(a, statements, i) ==
  IF ~AOk(a) \/ i > Len(statements) THEN a
  ELSE AnalyzeAll(analyzeStatement(a, statements[i]), statements, i + 1)

analyzeBlockStatement(a, block_stmt) ==
  exitScope(AnalyzeAll(enterScope(a, "block", ScopeKind.Block),
                       block_stmt.statements, 1))

\* the body of the loop of DeclareParameters after declareVariable
ParameterDeclared(decls, i, param) ==
  DeclareParameters(IF ~NameIsValid(param.var)
                      THEN Push(param.a,
                                "Unable to declare function parameter: "
                                  \o decls[i].identifier.name,
                                decls[i].start, decls[i].end)
                      ELSE param.a,
                    decls, i + 1)

\* the loop of analyzeFunctionDeclaration over the parameters
DeclareParameters(a, decls, i) ==
  IF ~AOk(a) \/ i > Len(decls) THEN a
  ELSE ParameterDeclared(decls, i, declareVariable(a, decls[i]))

\* analyzeFunctionDeclaration after declareFunction
FunctionDeclared(func_decl, func) ==
  IF ~NameIsValid(func.func)
    THEN Push(func.a,
              "Unable to declare function: " \o func_decl.identifier.name,
              func_decl.start, func_decl.end)
    ELSE exitScope(
           analyzeBlockStatement(
             DeclareParameters(
               enterScope(func.a, func_decl.identifier.name,
                          ScopeKind.Function),
               func_decl.parameters, 1),
             func_decl.body))

analyzeFunctionDeclaration(a, func_decl) ==
  FunctionDeclared(func_decl, declareFunction(a, func_decl))

\* analyzeVariableDeclaration after the type of the initializer
InitializerTyped(var_decl, var, init_type) ==
  LET a2 == Note(init_type, var_decl.initializer.start)
  IN IF ~TypeIsValid(init_type.t)
       THEN Push(a2,
                 "Invalid type for variable initializer: "
                   \o var_decl.identifier.name,
                 var_decl.initializer.start, var_decl.initializer.end)
     ELSE IF ~canAssignType(init_type.t, var.var.type)
       THEN Push(a2,
                 "Type mismatch in variable initializer: "
                   \o var_decl.identifier.name,
                 var_decl.initializer.start, var_decl.initializer.end)
     ELSE a2

\* analyzeVariableDeclaration after declareVariable
VariableDeclared(var_decl, var) ==
  LET a1 == IF ~NameIsValid(var.var)
              THEN Push(var.a,
                        "Unable to declare variable: "
                          \o var_decl.identifier.name,
                        var_decl.start, var_decl.end)
              ELSE var.a
  IN IF IsNullPtr(var_decl.initializer) THEN a1
     ELSE InitializerTyped(var_decl, var,
                           inferExpression(a1, var_decl.initializer))

analyzeVariableDeclaration(a, var_decl) ==
  VariableDeclared(var_decl, declareVariable(a, var_decl))

\* for (method : methods) analyzeFunctionDeclaration(*method)
AnalyzeMethods(a, methods, i) ==
  IF ~AOk(a) \/ i > Len(methods) THEN a
  ELSE AnalyzeMethods(analyzeFunctionDeclaration(a, methods[i]), methods,
                      i + 1)

\* analyzeClassDeclaration after declareClass
ClassDeclared(class_decl, cls) ==
  IF ~NameIsValid(cls.cls)
    THEN Push(cls.a,
              "Unable to declare class: " \o class_decl.identifier.name,
              class_decl.start, class_decl.end)
    ELSE exitScope(
           AnalyzeMethods(
             enterScope(cls.a, class_decl.identifier.name, ScopeKind.Class),
             class_decl.methods, 1))

analyzeClassDeclaration(a, class_decl) ==
  ClassDeclared(class_decl, declareClass(a, class_decl))

\* analyzeRecordDeclaration after declareRecord
RecordDeclared(record_decl, record) ==
  IF ~NameIsValid(record.record)
    THEN Push(record.a,
              "Unable to declare record: " \o record_decl.identifier.name,
              record_decl.start, record_decl.end)
    ELSE record.a

analyzeRecordDeclaration(a, record_decl) ==
  RecordDeclared(record_decl, declareRecord(a, record_decl))

analyzeDeclaration(a, decl) ==
  IF decl.node = "Function" THEN analyzeFunctionDeclaration(a, decl)
  ELSE IF decl.node = "Variable" THEN analyzeVariableDeclaration(a, decl)
  ELSE IF decl.node = "Class" THEN analyzeClassDeclaration(a, decl)
  ELSE IF decl.node = "Record" THEN analyzeRecordDeclaration(a, decl)
  ELSE a

\* analyzeExpressionStatement after the type of the expression
ExpressionTyped(expr_stmt, expr_type) ==
  IF ~TypeIsValid(expr_type.t)
    THEN Push(Note(expr_type, expr_stmt.start),
              "Invalid expression in expression statement.",
              expr_stmt.start, expr_stmt.end)
    ELSE Note(expr_type, expr_stmt.start)

analyzeExpressionStatement(a, expr_stmt) ==
  ExpressionTyped(expr_stmt, inferExpression(a, expr_stmt.expression))

\* the check of a condition after its type
ConditionTyped(condition, cond_type) ==
  IF ~TypeIsValid(cond_type.t)
    THEN Push(cond_type.a, "Invalid type for condition expression.",
              condition.start, condition.end)
  ELSE IF ~isTruthy(cond_type.t)
    THEN Push(cond_type.a, "Condition expression must be of a truthy type.",
              condition.start, condition.end)
  ELSE cond_type.a

\* the check of a condition shared by if and while
CheckCondition(a, condition) ==
  ConditionTyped(condition, inferExpression(a, condition))

\* for (elif : elif_branches) analyzeIfConditional(*elif)
AnalyzeElifs(a, branches, i) ==
  IF ~AOk(a) \/ i > Len(branches) THEN a
  ELSE AnalyzeElifs(analyzeIfConditional(a, branches[i]), branches, i + 1)

\* analyzeIfConditional after the elif branches
ElifsAnalyzed(if_cond, a3) ==
  IF IsNullPtr(if_cond.else_branch) THEN a3
  ELSE analyzeBlockStatement(a3, if_cond.else_branch)

analyzeIfConditional(a, if_cond) ==
  ElifsAnalyzed(if_cond,
    AnalyzeElifs(analyzeBlockStatement(CheckCondition(a, if_cond.condition),
                                       if_cond.then_branch),
                 if_cond.elif_branches, 1))

analyzeModifierStatement(a, mod_stmt) ==
  IF ~hasFlag(CurrentKind(a), ScopeKind.Class)
     /\ (mod_stmt.accessor # "Public" \/ mod_stmt.modifier # {})
    THEN Push(a, "Modifiers can only be used within class scopes.",
              mod_stmt.start, mod_stmt.end)
    ELSE a

\* for (case : case_branches) analyzeBlockStatement(*case->then_branch)
AnalyzeCases(a, cases, i) ==
  IF ~AOk(a) \/ i > Len(cases) THEN a
  ELSE AnalyzeCases(analyzeBlockStatement(a, cases[i].then_branch), cases,
                    i + 1)

\* analyzeSwitchConditional after the type of the switch expression
SwitchTyped(switch_cond, switch_type) ==
  AnalyzeCases(IF ~TypeIsValid(switch_type.t)
                 THEN Push(switch_type.a,
                           "Invalid type for switch expression.",
                           switch_cond.switch_expression.start,
                           switch_cond.switch_expression.end)
                 ELSE switch_type.a,
               switch_cond.case_branches, 1)

analyzeSwitchConditional(a, switch_cond) ==
  SwitchTyped(switch_cond,
              inferExpression(a, switch_cond.switch_expression))

analyzeWhileConditional(a, while_cond) ==
  exitScope(
    analyzeBlockStatement(
      CheckCondition(enterScope(a, "while", ScopeKind.Loop),
                     while_cond.condition),
      while_cond.then_branch))

\* the condition of analyzeForConditional after its type
ForConditionTyped(for_cond, cond_type) ==
  IF ~TypeIsValid(cond_type.t)
    THEN Push(cond_type.a, "Condition expression must be of a valid type.",
              for_cond.condition.start, for_cond.condition.end)
  ELSE IF ~isTruthy(cond_type.t)
    THEN Push(cond_type.a, "Condition expression must be of a truthy type.",
              for_cond.condition.start, for_cond.condition.end)
  ELSE cond_type.a

\* the increment of analyzeForConditional after its type: the error is
\* logged and not pushed
ForIncrementTyped(for_cond, inc_type) ==
  IF ~TypeIsValid(inc_type.t)
    THEN ALog(inc_type.a, "Increment expression must be of a valid type.",
              for_cond.increment.start, for_cond.increment.end)
    ELSE inc_type.a

\* analyzeForConditional after the increment
ForIncrementAnalyzed(for_cond, a3) ==
  exitScope(analyzeBlockStatement(a3, for_cond.then_branch))

\* analyzeForConditional after the condition
ForConditionAnalyzed(for_cond, a2) ==
  ForIncrementAnalyzed(for_cond,
    IF IsNullPtr(for_cond.increment) THEN a2
    ELSE ForIncrementTyped(for_cond,
                           inferExpression(a2, for_cond.increment)))

\* analyzeForConditional after the initializer
ForInitializerAnalyzed(for_cond, a1) ==
  ForConditionAnalyzed(for_cond,
    IF IsNullPtr(for_cond.condition) THEN a1
    ELSE ForConditionTyped(for_cond,
                           inferExpression(a1, for_cond.condition)))

\* analyzeForConditional after enterScope
ForEntered(for_cond, a0) ==
  ForInitializerAnalyzed(for_cond,
    IF IsNullPtr(for_cond.initializer) THEN a0
    ELSE analyzeDeclaration(a0, for_cond.initializer))

analyzeForConditional(a, for_cond) ==
  ForEntered(for_cond, enterScope(a, "for", ScopeKind.Loop))

\* analyzeReturnStatement after the returned expression
ReturnTyped(ret_stmt, a1) ==
  IF AOk(a1) /\ ~hasFlag(CurrentKind(a1), ScopeKind.Function)
    THEN Push(a1, "Return statement not within a function scope.",
              ret_stmt.start, ret_stmt.end)
    ELSE a1

analyzeReturnStatement(a, ret_stmt) ==
  ReturnTyped(ret_stmt,
              IF IsNullPtr(ret_stmt.expression) THEN a
              ELSE inferExpression(a, ret_stmt.expression).a)

analyzeBreakStatement(a, break_stmt) ==
  IF ~hasFlag(CurrentKind(a), ScopeKind.Loop)
    THEN Push(a, "Break statement not within a loop scope.",
              break_stmt.start, break_stmt.end)
    ELSE a

analyzeContinueStatement(a, cont_stmt) ==
  IF ~hasFlag(CurrentKind(a), ScopeKind.Loop)
    THEN Push(a, "Continue statement not within a loop scope.",
              cont_stmt.start, cont_stmt.end)
    ELSE a

analyzeConditional(a, cond) ==
  IF cond.node = "If" THEN analyzeIfConditional(a, cond)
  ELSE IF cond.node = "Switch" THEN analyzeSwitchConditional(a, cond)
  ELSE IF cond.node = "While" THEN analyzeWhileConditional(a, cond)
  ELSE IF cond.node = "For" THEN analyzeForConditional(a, cond)
  ELSE a

analyzeStatement(a, stmt) ==
  CASE ~AOk(a) -> a
    [] AOk(a) /\ stmt.node \in {"Function", "Variable", "Class", "Record"} ->
         analyzeDeclaration(a, stmt)
    [] AOk(a) /\ stmt.node = "Modifier" -> analyzeModifierStatement(a, stmt)
    [] AOk(a) /\ stmt.node = "Block" -> analyzeBlockStatement(a, stmt)
    [] AOk(a) /\ stmt.node = "ExpressionStatement" ->
         analyzeExpressionStatement(a, stmt)
    [] AOk(a) /\ stmt.node \in {"If", "Switch", "While", "For", "Conditional"} ->
         analyzeConditional(a, stmt)
    [] AOk(a) /\ stmt.node = "Return" -> analyzeReturnStatement(a, stmt)
    [] AOk(a) /\ stmt.node = "Break" -> analyzeBreakStatement(a, stmt)
    [] AOk(a) /\ stmt.node = "Continue" -> analyzeContinueStatement(a, stmt)
    [] OTHER -> a

analyze(a, prog) ==
  exitScope(AnalyzeAll(enterScope(a, "global", ScopeKind.Global),
                       prog.statements, 1))

(***************************************************************************)
(* Source texts.  A program is written as a sequence of words; Join spells *)
(* each word out in characters and puts one space between two words.       *)
(***************************************************************************)
MaxSrcLen == 3
MaxNest == 2
MaxMembers == 2
MaxArity == 2
MaxSpin == 3
MaxOps == 3

\* the words of more than one character
Words ==
  "let" :> <<"l", "e", "t">> @@
  "break" :> <<"b", "r", "e", "a", "k">> @@
  "continue" :> <<"c", "o", "n", "t", "i", "n", "u", "e">> @@
  "return" :> <<"r", "e", "t", "u", "r", "n">> @@
  "switch" :> <<"s", "w", "i", "t", "c", "h">> @@
  "case" :> <<"c", "a", "s", "e">> @@
  "default" :> <<"d", "e", "f", "a", "u", "l", "t">> @@
  "fn" :> <<"f", "n">> @@
  "rec" :> <<"r", "e", "c">> @@
  "cls" :> <<"c", "l", "s">> @@
  "if" :> <<"i", "f">> @@
  "elif" :> <<"e", "l", "i", "f">> @@
  "else" :> <<"e", "l", "s", "e">> @@
  "while" :> <<"w", "h", "i", "l", "e">> @@
  "for" :> <<"f", "o", "r">> @@
  "in" :> <<"i", "n">> @@
  "true" :> <<"t", "r", "u", "e">> @@
  "pub" :> <<"p", "u", "b">> @@
  "static" :> <<"s", "t", "a", "t", "i", "c">> @@
  "i8" :> <<"i", "8">> @@
  "i32" :> <<"i", "3", "2">> @@
  "i64" :> <<"i", "6", "4">> @@
  "f32" :> <<"f", "3", "2">> @@
  "f64" :> <<"f", "6", "4">> @@
  "bool" :> <<"b", "o", "o", "l">> @@
  "str" :> <<"s", "t", "r">> @@
  "add" :> <<"a", "d", "d">> @@
  "Point" :> <<"P", "o", "i", "n", "t">> @@
  "xs" :> <<"x", "s">> @@
  "10" :> <<"1", "0">> @@
  "pri" :> <<"p", "r", "i">> @@
  "pro" :> <<"p", "r", "o">> @@
  "this" :> <<"t", "h", "i", "s">> @@
  "null" :> <<"n", "u", "l", "l">> @@
  "false" :> <<"f", "a", "l", "s", "e">> @@
  "const" :> <<"c", "o", "n", "s", "t">> @@
  "init" :> <<"i", "n", "i", "t">> @@
  "ini" :> <<"i", "n", "i">> @@
  "inits" :> <<"i", "n", "i", "t", "s">> @@
  "iff" :> <<"i", "f", "f">> @@
  "lets" :> <<"l", "e", "t", "s">> @@
  "nul" :> <<"n", "u", "l">> @@
  "True" :> <<"T", "r", "u", "e">> @@
  "whiles" :> <<"w", "h", "i", "l", "e", "s">> @@
  "continues" :> <<"c", "o", "n", "t", "i", "n", "u", "e", "s">> @@
  "fals" :> <<"f", "a", "l", "s">> @@
  "||" :> <<"|", "|">> @@
  "&&" :> <<"&", "&">> @@
  "==" :> <<"=", "=">> @@
  "!=" :> <<"!", "=">> @@
  "<=" :> <<"<", "=">> @@
  ">=" :> <<">", "=">> @@
  "1.5" :> <<"1", ".", "5">> @@
  ".." :> <<".", ".">> @@
  "++" :> <<"+", "+">> @@
  "\"s\"" :> <<"\"", "s", "\"">> @@
  "'c'" :> <<"'", "c", "'">>

Spell(w) == IF w \in DOMAIN Words THEN Words[w] ELSE <<w>>

RECURSIVE Join(_)
Join(ws) ==
  IF ws = <<>> THEN <<>>
  ELSE IF Len(ws) = 1 THEN Spell(ws[1])
  ELSE Spell(ws[1]) \o <<" ">> \o Join(Tail(ws))

\* all sequences over S of length at most n
SeqsUpTo(S, n) == UNION {[1..k -> S] : k \in 0..n}

RECURSIVE Flatten(_)
Flatten(ss) == IF ss = <<>> THEN <<>> ELSE ss[1] \o Flatten(Tail(ss))

\* every text of at most MaxSrcLen characters over an alphabet with a
\* letter, a digit, both quotes, operators, a delimiter, a blank and a
\* character the lexer does not know
SrcAlphabet == {"a", "1", "@", "\"", "'", "+", ".", ";", " "}

SrcStrings == SeqsUpTo(SrcAlphabet, MaxSrcLen)

\* statements and declarations, and every text cut off after some word
BasePrograms ==
  {<<"let", "x", ":", "i32", "=", "1", ";">>,
   <<"break", ";">>, <<"continue", ";">>, <<"x", "+", "1", ";">>,
   <<"x", "+", ";">>, <<"return", "x", ";">>,
   <<"switch", "x", "{", "}">>,
   <<"switch", "x", "{", "case", "1", "{", "}", "default", "{", "}", "}">>,
   <<"if", "x", "{", "}", "elif", "y", "{", "}", "else", "{", "}">>,
   <<"f", "(", "1", ",", "x", ")", "[", "0", "]", ".", "y", ";">>,
   <<"let", "a", "=", "[", "1", ",", "2", "]", ";">>,
   <<"for", "(", "x", ":", "i32", "in", "xs", ")", "{", "}">>,
   <<"for", "(", "0", "..", "10", ")", "{", "}">>,
   <<"fn", "f", "(", "a", ":", "i32", ")", ":", "i32", "{", "return", "a",
     ";", "}">>}

CutPrograms ==
  UNION {{SubSeq(b, 1, n) : n \in 1..Len(b)} : b \in BasePrograms}

\* break, continue and return under at most MaxNest enclosing constructs
Jumps ==
  {<<"break", ";">>, <<"continue", ";">>, <<"return", "1", ";">>,
   <<"return", ";">>}

Contexts == {"block", "fn", "while", "for", "if", "cls"}

Wrap(c, body) ==
  CASE c = "block" -> <<"{">> \o body \o <<"}">>
    [] c = "fn" -> <<"fn", "f", "(", ")", "{">> \o body \o <<"}">>
    [] c = "while" -> <<"while", "true", "{">> \o body \o <<"}">>
    [] c = "for" -> <<"for", "(", "0", "..", "10", ")", "{">> \o body
                    \o <<"}">>
    [] c = "if" -> <<"if", "true", "{">> \o body \o <<"}">>
    [] c = "cls" -> <<"cls", "A", "{", "pub", "fn", "m", "(", ")", "{">>
                    \o body \o <<"}", "}">>

RECURSIVE WrapAll(_, _)
WrapAll(cs, body) ==
  IF cs = <<>> THEN body ELSE Wrap(cs[1], WrapAll(Tail(cs), body))

NestPrograms ==
  {WrapAll(cs, j) : cs \in SeqsUpTo(Contexts, MaxNest), j \in Jumps}

\* a variable with a declared type and a literal initializer
VarPrograms ==
  {<<"let", "x", ":", D, "=", L, ";">> :
     D \in {"i8", "i32", "i64", "f32", "f64", "bool", "str"},
     L \in {"5", "1.5", "true", "\"s\"", "'c'"}}

\* a function of at most MaxArity parameters and a call of it
Separated(items) ==
  Flatten([k \in DOMAIN items |->
             IF k = 1 THEN items[k] ELSE <<",">> \o items[k]])

Names == <<"a", "b", "c", "d", "e", "g">>

CallPrograms ==
  {<<"fn", "add", "(">>
     \o Separated([k \in DOMAIN ps |-> <<Names[k], ":", ps[k]>>])
     \o <<")", ":", ret, "{", "}", "add", "(">>
     \o Separated([k \in DOMAIN as |-> <<as[k]>>])
     \o <<")", ";">> :
     ps \in SeqsUpTo({"i32", "bool"}, MaxArity),
     as \in SeqsUpTo({"1", "true"}, MaxArity),
     ret \in {"i32", "bool"}}

\* a record of two fields, a variable of the record type and an attribute
Field(acc, name, type) ==
  (IF acc = "" THEN <<>> ELSE <<acc>>) \o <<name, ":", type, ";">>

RecProgram(acc, T1, T2, F) ==
  <<"rec", "Point", "{">> \o Field(acc, "x", T1) \o Field(acc, "y", T2)
    \o <<"}", "let", "p", ":", "Point", ";", "p", ".", F, ";">>

RecPrograms ==
  {RecProgram(acc, T1, T2, F) :
     acc \in {"", "pub"}, T1 \in {"f32", "i32"}, T2 \in {"f32", "bool"},
     F \in {"x", "y"}}

\* a C-style for loop
ForProgram(ty, e, c, inc) ==
  <<"for", "(", "let", "i", ":", ty, "=", e, ";">> \o c \o <<";">> \o inc
    \o <<")", "{", "}">>

ForConditions == {<<"i", "<", "10">>, <<"true">>}

ForIncrements == {<<"i", "=", "i", "+", "1">>, <<"i", "++">>}

ForPrograms ==
  {ForProgram(ty, e, c, inc) :
     ty \in {"i32", "f32"}, e \in {"0", "1"}, c \in ForConditions,
     inc \in ForIncrements}

\* a use of x in a scope and a use after the scope, with x declared before
\* the scope, in it, both or neither; and a use before the declaration
Declare(ty) == IF ty = "" THEN <<>> ELSE <<"let", "x", ":", ty, ";">>

ScopeOpeners ==
  [block |-> <<"{">>,
   blocks |-> <<"{", "{">>,
   fn |-> <<"fn", "f", "(", ")", "{">>,
   while |-> <<"while", "true", "{">>,
   if |-> <<"if", "true", "{">>,
   for |-> <<"for", "(", "y", ":", "i32", "in", "1", ")", "{">>]

Scoped(c, inner) ==
  CASE c = "param" -> <<"fn", "f", "(", "x", ":", inner, ")", "{", "x", ";", "}">>
    [] c = "each" -> <<"for", "(", "x", ":", inner, "in", "1", ")", "{", "x", ";", "}">>
    [] c = "blocks" -> ScopeOpeners[c] \o Declare(inner) \o <<"x", ";", "}", "}">>
    [] OTHER -> ScopeOpeners[c] \o Declare(inner) \o <<"x", ";", "}">>

ScopeProgram(outer, c, inner) == Declare(outer) \o Scoped(c, inner) \o <<"x", ";">>

ScopePrograms ==
  {ScopeProgram(outer, c, inner) :
     outer \in {"", "i32"}, c \in DOMAIN ScopeOpeners, inner \in {"", "str"}}
  \cup {ScopeProgram(outer, c, "str") :
          outer \in {"", "i32"}, c \in {"param", "each"}}
  \cup {<<"x", ";">> \o Declare("i32")}

\* a declaration whose type annotation is the name of a variable or of a
\* function declared before it
NamedBefore ==
  {<<"let", "a", ":", "i32", ";">>, <<"let", "a", ":", "i32", "=", "1", ";">>,
   <<"fn", "a", "(", ")", "{", "}">>}

Annotated ==
  {<<"let", "b", ":", "a", ";", "b", ";">>,
   <<"let", "b", ":", "a", "=", "2", ";">>,
   <<"fn", "f", "(", "p", ":", "a", ")", "{", "}">>,
   <<"fn", "f", "(", ")", ":", "a", "{", "}">>,
   <<"rec", "R", "{", "pub", "x", ":", "a", ";", "}">>}

AnnotationPrograms ==
  {before \o annotated : before \in NamedBefore, annotated \in Annotated}

\* two declarations of x in one scope, and a use of x
TwicePrograms ==
  {<<"let", "x", ":", T1, "=", L1, ";", "let", "x", ":", T2, "=", L2, ";",
     "x", ";">> :
     T1 \in {"str", "i64"}, L1 \in {"\"s\"", "1"},
     T2 \in {"str", "i64"}, L2 \in {"\"s\"", "1"}}

\* for-each loops and range loops
LoopBodies == {<<>>, <<"break", ";">>}

Iterables == {<<"xs">>, <<"a", "+", "b">>, <<"a", "..", "b">>}

ForEachProgram(name, ty, iterable, body) ==
  <<"for", "(", name, ":", ty, "in">> \o iterable \o <<")", "{">> \o body
    \o <<"}">>

ForEachPrograms ==
  {ForEachProgram(name, ty, iterable, body) :
     name \in {"x", "i"}, ty \in {"i32", "str", "Point"},
     iterable \in Iterables, body \in LoopBodies}

RangeEnds == {"0", "10", "a"}

RangeProgram(lo, hi, body) ==
  <<"for", "(", lo, "..", hi, ")", "{">> \o body \o <<"}">>

RangePrograms ==
  {RangeProgram(lo, hi, body) :
     lo \in RangeEnds, hi \in RangeEnds, body \in LoopBodies}

\* the range loop written without blanks
RangeText(lo, hi) ==
  Spell("for") \o <<"(">> \o Spell(lo) \o Spell("..") \o Spell(hi)
    \o <<")", "{", "}">>

RangeTexts == {RangeText(lo, hi) : lo \in RangeEnds, hi \in RangeEnds}

\* a class of at most MaxMembers members
Members ==
  {<<"x", ":", "i32", ";">>, <<"pub", "x", ":", "i32", ";">>,
   <<"static", "y", ":", "i32", ";">>, <<"fn", "f", "(", ")", "{", "}">>,
   <<"pub", "fn", "g", "(", ")", "{", "}">>}

ClsProgram(ms) == <<"cls", "A", "{">> \o Flatten(ms) \o <<"}">>

ClsPrograms == {ClsProgram(ms) : ms \in SeqsUpTo(Members, MaxMembers)}

\* a class of two methods: the body of the first uses a name, and the
\* second has a return type and a parameter
MethodProgram(used, ret, ty) ==
  <<"cls", "A", "{", "fn", "f", "(", ")", "{", used, ";", "}",
    "fn", "g", "(", "p", ":", ty, ")", ":", ret, "{", "}", "}">>

MethodPrograms ==
  {MethodProgram(used, ret, ty) :
     used \in {"u", "1"}, ret \in {"T", "i32"}, ty \in {"T", "i32"}}

\* identifiers joined by at most MaxOps binary operators, and the two
\* expressions the language description works through
BinaryOperators ==
  {"=", "||", "&&", "==", "!=", "<", ">", "<=", ">=", "..", "+", "-", "*",
   "/", "%"}

OpExpression(ops) ==
  <<Names[1]>> \o Flatten([k \in DOMAIN ops |-> <<ops[k], Names[k + 1]>>])

OpPrograms ==
  {OpExpression(ops) \o <<";">> : ops \in SeqsUpTo(BinaryOperators, MaxOps)}
  \cup {OpExpression(<<"+", "*", "-", "/">>) \o <<";">>}

\* attribute accesses, alone and under a binary operator
AttrPrograms ==
  {<<"a", ".", "b", ";">>, <<"a", ".", "b", ".", "c", ";">>,
   <<"a", ".", "b", "+", "c", ";">>, <<"a", ".", "b", "=", "c", ";">>,
   <<"a", ".", "b", "(", ")", ";">>, <<"a", ".", "b", "(", ")", ".", "c", ";">>,
   <<"a", "+", "b", ".", "c", ";">>}

\* texts with literals that are not closed, that are empty or too long, and
\* texts with a character the lexer does not know
LiteralTexts ==
  {<<"x", " ", "\"", "a", "\n", "b", "'", "c">>,
   <<"x", " ", "=", " ", "\"", "a", "b", "\n">>,
   <<"\"", "a", "'", "b", "'", " ", "c">>,
   <<"'", "a", "b", "c", "'">>,
   <<"'", "\\", "n", "'">>,
   <<"'", "\\", "n">>,
   <<"'", "a", "'", " ", "x">>,
   <<"x", " ", "'">>,
   <<"'", "'", " ", "x">>,
   <<"'", "\\">>,
   <<"a", " ", "'", "b", " ", "c">>,
   <<"a", "@">>,
   <<"a", " ", "@">>,
   <<"a", "b", "@">>,
   <<"a", " ", "+", " ", "@">>,
   <<"1", "@">>,
   <<"1", " ", "@", "b">>,
   <<"\"", "s", "\"", "@">>,
   <<"'", "c", "'", "@">>,
   <<";", "@">>,
   <<"+", "@">>}

Sources ==
  SrcStrings \cup LiteralTexts \cup RangeTexts
  \cup {Join(ws) : ws \in CutPrograms \cup BasePrograms \cup NestPrograms
                        \cup VarPrograms \cup CallPrograms \cup RecPrograms
                        \cup ForPrograms \cup ClsPrograms
                        \cup OpPrograms \cup AttrPrograms
                        \cup MethodPrograms \cup ForEachPrograms
                        \cup RangePrograms \cup ScopePrograms
                        \cup AnnotationPrograms \cup TwicePrograms}

(***************************************************************************)
(* The driver: main calls compileFile, which calls compileSource, which    *)
(* parses (lexing first) and then analyzes.                                *)
(***************************************************************************)
\* no function is called on its own while the compiler runs
NoCall == [fn |-> "none", args |-> <<>>]

Init ==
  /\ pc = "lex"
  /\ source_ \in Sources
  /\ start_ = LexReset.start
  /\ current_ = LexReset.current
  /\ value_dirty_ = LexReset.dirty
  /\ cached_value_ = LexReset.cached
  /\ tokens_ = <<>>
  /\ lexLog = <<>>
  /\ index_ = 0
  /\ class_i = 0
  /\ program = Null
  /\ parseLog = <<>>
  /\ parseFault = "none"
  /\ errors = <<>>
  /\ analyzeLog = <<>>
  /\ analyzeFault = "none"
  /\ scopeTrace = <<>>
  /\ inferred = <<>>
  /\ result = -1
  /\ exitCode = -1
  /\ called = NoCall
  /\ returned = NoCall

\* one iteration of the loop of Lexer::lex: a call of next(), whose token is
\* pushed, and the loop ends on Eof or None
LexNext ==
  /\ pc = "lex"
  /\ \E r \in {LexerNext(source_,
                        [start |-> start_, current |-> current_,
                         dirty |-> value_dirty_, cached |-> cached_value_,
                         log |-> lexLog])} :
        /\ start_' = r.L.start
        /\ current_' = r.L.current
        /\ value_dirty_' = r.L.dirty
        /\ cached_value_' = r.L.cached
        /\ lexLog' = r.L.log
        /\ tokens_' = Append(tokens_, r.tok)
        /\ pc' = IF r.tok.kind = "Eof" \/ r.tok.kind = "None"
                   THEN "parse"
                   ELSE "lex"
  /\ UNCHANGED <<source_, index_, class_i, program, parseLog, parseFault,
                 errors, analyzeLog, analyzeFault, scopeTrace, inferred,
                 result, exitCode>>
  /\ UNCHANGED callVars

\* parseProgram over the tokens, from index_ 0.  A null dereference ends
\* the process; the member loop of parseClass can be left running.
Parse ==
  /\ pc = "parse"
  /\ \E r \in {parseProgram(ParserInit(tokens_))} :
        /\ program' = r.n
        /\ parseLog' = r.p.log
        /\ parseFault' = r.p.fault
        /\ index_' = r.p.index
        /\ class_i' = IF r.p.fault = "spin"
                        THEN Len(tokens_) - r.p.index
                        ELSE 0
        /\ pc' = CASE r.p.fault = "none" -> "analyze"
                   [] r.p.fault = "spin" -> "spin"
                   [] OTHER -> "crashed"
  /\ UNCHANGED <<source_, start_, current_, value_dirty_, cached_value_,
                 tokens_, lexLog, errors, analyzeLog, analyzeFault,
                 scopeTrace, inferred, result, exitCode>>
  /\ UNCHANGED callVars

\* one more iteration of the member loop of parseClass taking its last
\* branch: look(i) is null, i++ and nothing else.  The loop goes on like
\* this; the model follows it for MaxSpin iterations.
ClassSpin ==
  /\ pc = "spin"
  /\ LET p == [ParserInit(tokens_) EXCEPT !.index = index_]
     IN /\ ~PIsEof(p)
        /\ ~checkValue(p, "}")
        /\ IsNullPtr(PLook(p, class_i))
  /\ class_i < Len(tokens_) - index_ + MaxSpin
  /\ class_i' = class_i + 1
  /\ UNCHANGED <<pc, source_, start_, current_, value_dirty_, cached_value_,
                 tokens_, lexLog, index_, program, parseLog, parseFault,
                 errors, analyzeLog, analyzeFault, scopeTrace, inferred,
                 result, exitCode>>
  /\ UNCHANGED callVars

\* Analyzer::analyze on the parsed program
Analyze ==
  /\ pc = "analyze"
  /\ \E a \in {analyze(AnalyzerInit, program)} :
        /\ errors' = a.errors
        /\ analyzeLog' = a.log
        /\ analyzeFault' = a.fault
        /\ scopeTrace' = a.trace
        /\ inferred' = a.inferred
        /\ pc' = IF a.fault = "none" THEN "return" ELSE "crashed"
  /\ UNCHANGED <<source_, start_, current_, value_dirty_, cached_value_,
                 tokens_, lexLog, index_, class_i, program, parseLog,
                 parseFault, result, exitCode>>
  /\ UNCHANGED callVars

\* Analyzer::hasErrors
hasErrors == errors # <<>>

\* the end of compileSource: 1 if the analyzer has errors, else 0
Return ==
  /\ pc = "return"
  /\ result' = IF hasErrors THEN 1 ELSE 0
  /\ pc' = "exit"
  /\ UNCHANGED <<source_, start_, current_, value_dirty_, cached_value_,
                 tokens_, lexLog, index_, class_i, program, parseLog,
                 parseFault, errors, analyzeLog, analyzeFault, scopeTrace,
                 inferred, exitCode>>
  /\ UNCHANGED callVars

\* the end of main: it prints a message chosen by the result and returns 0
Exit ==
  /\ pc = "exit"
  /\ exitCode' = 0
  /\ pc' = "done"
  /\ UNCHANGED <<source_, start_, current_, value_dirty_, cached_value_,
                 tokens_, lexLog, index_, class_i, program, parseLog,
                 parseFault, errors, analyzeLog, analyzeFault, scopeTrace,
                 inferred, result>>
  /\ UNCHANGED callVars

Next == LexNext \/ Parse \/ ClassSpin \/ Analyze \/ Return \/ Exit

Spec == Init /\ [][Next]_vars

\* every step of the program that can be taken is taken
FairSpec == Spec /\ WF_vars(Next)

(***************************************************************************)
(* The functions of type.h and modifier.h, and Lexer::lexAlpha, called on  *)
(* their own: Init draws the arguments, and one action per function        *)
(* applies it.                                                             *)
(***************************************************************************)
\* the longest text given to opLen
MaxOpText == 3

\* the last column of a diagnostic given to Error::log
MaxColumn == 4

\* diagnostics on the lines 0 to 2 and the columns 1 to MaxColumn
Diagnostics ==
  {Diag("Error", "", Locus(l1, c1, 0), Locus(l2, c2, 0)) :
     l1 \in 0..2, l2 \in 1..2, c1 \in 1..MaxColumn, c2 \in 1..MaxColumn}

Primitives == {primitives[k] : k \in DOMAIN primitives}

TypePairs == {<<a, b>> : a \in Primitives, b \in Primitives}

\* the words isKwy lists, and words that are none of them
AlphaWords ==
  {"if", "fn", "in", "for", "let", "cls", "rec", "pub", "pri", "pro",
   "elif", "else", "case", "this", "null", "true", "false",
   "while", "break", "const", "init", "return", "switch",
   "default", "continue"}
  \cup {"static", "ini", "inits", "iff", "lets", "nul", "True",
        "whiles", "continues", "fals", "x", "xs", "add", "Point", "i32", "str"}

AlphaTexts == {Spell(w) : w \in AlphaWords}

\* the texts after a word in the source
AlphaTails == {<<>>, <<" ", "x">>, <<";">>, <<"(", ")">>}

OperatorChars ==
  {"+", "-", "*", "/", "%", "=", "!", "<", ">", ".", "&", "|", "?", "^", "~"}

OpTexts == SeqsUpTo(OperatorChars \cup {"a", "x", " "}, MaxOpText)

\* the names of the primitive types
PrimitiveNames ==
  {"none", "void", "null", "bool", "i8", "i16", "i32", "i64", "i128", "u8",
   "u16", "u32", "u64", "u128", "f16", "f32", "f64", "f128", "char", "str"}

\* a scope with nothing in it, or with one class, record, variable or
\* function that has the name of a primitive type
HoldingScope(list, x) == [Scope("", ScopeKind.Block) EXCEPT ![list] = <<x>>]

HoldingScopes ==
  {Scope("", ScopeKind.Block)}
  \cup UNION {{HoldingScope("classes", Class(n, <<>>, <<>>)),
               HoldingScope("records", Record(n, <<>>)),
               HoldingScope("variables", Variable(n, i64_ty, "Public", {})),
               HoldingScope("functions", FunctionFromType(Type("None", n)))} :
                n \in {"none", "i32"}}

\* the chains of at most MaxNest scopes
ScopeChains == UNION {[1..d -> HoldingScopes] : d \in 1..MaxNest}

Calls ==
  {[fn |-> "promoteTypes", args |-> ab] : ab \in TypePairs}
  \cup {[fn |-> "log", args |-> <<err>>] : err \in Diagnostics}
  \cup {[fn |-> "getType", args |-> <<scopes, n>>] :
           scopes \in ScopeChains, n \in PrimitiveNames}
  \cup {[fn |-> "canAssignType", args |-> ab] : ab \in TypePairs}
  \cup {[fn |-> "isKwy", args |-> <<str>>] : str \in AlphaTexts}
  \cup {[fn |-> "lexAlpha", args |-> <<str \o tail>>] :
           str \in AlphaTexts, tail \in AlphaTails}
  \cup {[fn |-> "opLen", args |-> <<str>>] : str \in OpTexts}

CallInit ==
  /\ pc = "call"
  /\ called \in Calls
  /\ returned = NoCall
  /\ source_ = <<>>
  /\ start_ = LexReset.start
  /\ current_ = LexReset.current
  /\ value_dirty_ = LexReset.dirty
  /\ cached_value_ = LexReset.cached
  /\ tokens_ = <<>>
  /\ lexLog = <<>>
  /\ index_ = 0
  /\ class_i = 0
  /\ program = Null
  /\ parseLog = <<>>
  /\ parseFault = "none"
  /\ errors = <<>>
  /\ analyzeLog = <<>>
  /\ analyzeFault = "none"
  /\ scopeTrace = <<>>
  /\ inferred = <<>>
  /\ result = -1
  /\ exitCode = -1

\* what the call leaves alone
CallReturns ==
  /\ pc' = "returned"
  /\ UNCHANGED <<called, source_, start_, current_, value_dirty_,
                 cached_value_, tokens_, lexLog, index_, class_i, program,
                 parseLog, parseFault, errors, analyzeLog, analyzeFault,
                 scopeTrace, inferred, result, exitCode>>

CallPromoteTypes ==
  /\ pc = "call"
  /\ called.fn = "promoteTypes"
  /\ returned' = promoteTypes(called.args[1], called.args[2])
  /\ CallReturns

CallCanAssignType ==
  /\ pc = "call"
  /\ called.fn = "canAssignType"
  /\ returned' = canAssignType(called.args[1], called.args[2])
  /\ CallReturns

CallIsKwy ==
  /\ pc = "call"
  /\ called.fn = "isKwy"
  /\ returned' = isKwy(called.args[1])
  /\ CallReturns

\* lexAlpha on a lexer that lex() has just reset
CallLexAlpha ==
  /\ pc = "call"
  /\ called.fn = "lexAlpha"
  /\ returned' = lexAlpha(called.args[1], LexReset).tok
  /\ CallReturns

CallOpLen ==
  /\ pc = "call"
  /\ called.fn = "opLen"
  /\ returned' = opLen(called.args[1])
  /\ CallReturns

CallGetType ==
  /\ pc = "call"
  /\ called.fn = "getType"
  /\ returned' = getType(called.args[1], called.args[2])
  /\ CallReturns

CallLog ==
  /\ pc = "call"
  /\ called.fn = "log"
  /\ returned' = ErrorLog(called.args[1])
  /\ CallReturns

CallNext ==
  CallPromoteTypes \/ CallCanAssignType \/ CallIsKwy \/ CallLexAlpha
  \/ CallOpLen \/ CallGetType \/ CallLog

CallSpec == CallInit /\ [][CallNext]_vars

\* the call has returned
Returned(fn) == pc = "returned" /\ called.fn = fn


(***************************************************************************)
(* Properties.                                                             *)
(***************************************************************************)
\* parseProgram has returned
Parsed == pc \in {"analyze", "return", "exit", "done"}

\* analyze has returned
Analyzed == pc \in {"return", "exit", "done"}

\* an Error-level diagnostic of the lexer, the parser or the analyzer
AnyErrorDiagnostic ==
  \E log \in {lexLog, parseLog, errors, analyzeLog} :
    \E k \in DOMAIN log : log[k].level = "Error"

\* C1: Parser::parse never dereferences a null token or expression
\* pointer, and never reads the last element of an empty vector of cases,
\* whatever the source text.
C1_ParseNeverDereferencesNull == parseFault \notin {"nullderef", "emptyback"}

\* C2: every iteration of the member loop of parseClass consumes a token
\* or leaves the loop: a step that finds the parser in that loop either
\* moves index_ forward or ends the loop.
C2_EveryIterationConsumesOrExits ==
  [][pc = "spin" => (index_' > index_ \/ pc' # "spin")]_vars

\* C3: once lex has returned, the tokens are a non-empty sequence whose
\* last token is Eof and that holds no other Eof; the empty source gives
\* exactly one token.
C3_TokensEndWithOnlyEof ==
  pc # "lex" =>
    /\ tokens_ # <<>>
    /\ tokens_[Len(tokens_)].kind = "Eof"
    /\ \A k \in 1..(Len(tokens_) - 1) : tokens_[k].kind # "Eof"
    /\ source_ = <<>> => Len(tokens_) = 1

\* C4: the result of compileSource is non-zero exactly when the lexer, the
\* parser or the analyzer produced an Error-level diagnostic, and the exit
\* code of the process is that result.
C4_OutcomeReflectsDiagnostics ==
  /\ pc \in {"exit", "done"} => ((result # 0) <=> AnyErrorDiagnostic)
  /\ pc = "done" => exitCode = result

\* the break, continue and return statements under a node, each with the
\* constructs that enclose it, the outermost first
RECURSIVE JumpsUnder(_, _)
JumpsUnder(n, path) ==
  CASE n.node \in {"Break", "Continue", "Return"} ->
         {[node |-> n.node, start |-> n.start, path |-> path]}
    [] n.node = "Program" ->
         UNION {JumpsUnder(n.statements[k], path) : k \in DOMAIN n.statements}
    [] n.node = "Block" ->
         UNION {JumpsUnder(n.statements[k], Append(path, "Block")) :
                  k \in DOMAIN n.statements}
    [] n.node = "Function" -> JumpsUnder(n.body, Append(path, "Function"))
    [] n.node = "Class" ->
         UNION {JumpsUnder(n.methods[k], Append(path, "Class")) :
                  k \in DOMAIN n.methods}
    [] n.node = "If" ->
         JumpsUnder(n.then_branch, Append(path, "If"))
         \cup JumpsUnder(n.else_branch, Append(path, "If"))
         \cup UNION {JumpsUnder(n.elif_branches[k], path) :
                       k \in DOMAIN n.elif_branches}
    [] n.node = "Switch" ->
         UNION {JumpsUnder(n.case_branches[k], Append(path, "Switch")) :
                  k \in DOMAIN n.case_branches}
    [] n.node = "Conditional" -> JumpsUnder(n.then_branch, path)
    [] n.node \in {"While", "For"} ->
         JumpsUnder(n.then_branch, Append(path, n.node))
    [] OTHER -> {}

\* no while or for loop encloses the statement
OutsideLoops(path) == \A k \in DOMAIN path : path[k] \notin {"While", "For"}

\* a while or for loop encloses the statement with nothing but blocks and
\* conditionals in between
InsideLoop(path) ==
  \E k \in DOMAIN path :
    /\ path[k] \in {"While", "For"}
    /\ \A m \in (k + 1)..Len(path) : path[m] \in {"Block", "If", "Switch"}

\* a function body encloses the statement
InsideFunction(path) == \E k \in DOMAIN path : path[k] = "Function"

\* the analyzer has recorded the error for the node that starts at a locus
Recorded(description, at) ==
  \E k \in DOMAIN errors :
    errors[k].description = description /\ errors[k].start = at

\* the types inferExpression gave the expression that starts at a locus
InferredAt(at) ==
  {inferred[k].type : k \in {m \in DOMAIN inferred : inferred[m].at = at}}

IsPrimitive(name) == Find(primitives, name) # 0

Primitive(name) == primitives[Find(primitives, name)]

\* C5: a break or continue with no enclosing while or for is recorded as
\* not within a loop scope, and one that a loop encloses through blocks
\* and conditionals is not.
C5_JumpReportedIffOutsideLoop ==
  Analyzed =>
    \A j \in JumpsUnder(program, <<>>) :
      j.node \in {"Break", "Continue"} =>
        LET description == j.node \o " statement not within a loop scope."
        IN /\ OutsideLoops(j.path) => Recorded(description, j.start)
           /\ InsideLoop(j.path) => ~Recorded(description, j.start)

\* C6: a return is recorded as not within a function scope exactly when no
\* function body encloses it.
C6_ReturnReportedIffOutsideFunction ==
  Analyzed =>
    \A j \in JumpsUnder(program, <<>>) :
      j.node = "Return" =>
        (Recorded("Return statement not within a function scope.", j.start)
           <=> ~InsideFunction(j.path))

\* C7: for a top-level variable with a declared primitive type D and an
\* initializer of valid type I, a type mismatch is recorded for the
\* initializer exactly when canAssignType(to = D, from = I) is false.
C7_MismatchIffNotAssignable ==
  Analyzed =>
    \A k \in DOMAIN program.statements :
      LET var_decl == program.statements[k]
      IN (/\ var_decl.node = "Variable"
          /\ ~IsNullPtr(var_decl.type)
          /\ var_decl.type.node = "Identifier"
          /\ IsPrimitive(var_decl.type.name)
          /\ ~IsNullPtr(var_decl.initializer)
          /\ \E I \in InferredAt(var_decl.initializer.start) :
               TypeIsValid(I))
         => \A I \in InferredAt(var_decl.initializer.start) :
              Recorded("Type mismatch in variable initializer: "
                         \o var_decl.identifier.name,
                       var_decl.initializer.start)
                <=> ~canAssignType(Primitive(var_decl.type.name), I)

\* the function a declaration with primitive parameter and return types
\* declares
Declared(func_decl) ==
  Function(func_decl.identifier.name, Primitive(func_decl.type.name),
           [k \in DOMAIN func_decl.parameters |->
              Variable(func_decl.parameters[k].identifier.name,
                       Primitive(func_decl.parameters[k].type.name),
                       "Public", {})],
           "Public", {})

\* a top-level function with primitive types, and after it a statement
\* that calls it by name with literal arguments
CallsDeclared(func_decl, stmt) ==
  /\ func_decl.node = "Function"
  /\ ~IsNullPtr(func_decl.type)
  /\ func_decl.type.node = "Identifier"
  /\ IsPrimitive(func_decl.type.name)
  /\ \A k \in DOMAIN func_decl.parameters :
       /\ ~IsNullPtr(func_decl.parameters[k].type)
       /\ func_decl.parameters[k].type.node = "Identifier"
       /\ IsPrimitive(func_decl.parameters[k].type.name)
  /\ stmt.node = "ExpressionStatement"
  /\ ~IsNullPtr(stmt.expression)
  /\ stmt.expression.node = "Call"
  /\ stmt.expression.callee.node = "Identifier"
  /\ stmt.expression.callee.name = func_decl.identifier.name
  /\ \A k \in DOMAIN stmt.expression.arguments :
       stmt.expression.arguments[k].node = "Literal"

\* C8: a call of a declared function whose arguments are valid for its
\* parameters infers the declared return type and records nothing for the
\* call; a call whose arguments are not valid records the invalid-arguments
\* error.
C8_CallInfersReturnType ==
  Analyzed =>
    \A f \in DOMAIN program.statements :
      \A c \in (f + 1)..Len(program.statements) :
        LET func_decl == program.statements[f]
            stmt == program.statements[c]
        IN CallsDeclared(func_decl, stmt) =>
             LET call == stmt.expression
                 arg_types == [k \in DOMAIN call.arguments |->
                                 inferLiteral(AnalyzerInit,
                                              call.arguments[k]).t]
             IN IF isValidArguments(Declared(func_decl), arg_types)
                  THEN /\ InferredAt(call.start)
                            = {Primitive(func_decl.type.name)}
                       /\ \A k \in DOMAIN errors :
                            errors[k].start # call.start
                  ELSE Recorded("Function called with invalid arguments.",
                                call.start)

\* C9: for a record whose two fields carry no accessor keyword and a
\* variable p of the record type, the attribute expression of p and a field
\* infers the field's declared type, and the analyzer records no error for
\* the program.
C9_RecordFieldInfersDeclaredType ==
  \A T1 \in {"f32", "i32"}, T2 \in {"f32", "bool"}, F \in {"x", "y"} :
    (/\ source_ = Join(RecProgram("", T1, T2, F))
     /\ pc \notin {"lex", "parse", "analyze"})
      => /\ Analyzed
         /\ errors = <<>>
         /\ Len(program.statements) = 3
         /\ InferredAt(program.statements[3].start)
              = {Primitive(IF F = "x" THEN T1 ELSE T2)}

\* C10: a C-style for loop with a let initializer parses, without a
\* diagnostic, to one For node: its initializer the variable i with the
\* written type and initializer, its condition and increment the written
\* expressions, its body an empty block.
C10_ForLoopWithInitializerParses ==
  \A ty \in {"i32", "f32"}, e \in {"0", "1"}, c \in ForConditions,
     inc \in ForIncrements :
    (source_ = Join(ForProgram(ty, e, c, inc)) /\ pc \notin {"lex", "parse"})
      => /\ Parsed
         /\ parseLog = <<>>
         /\ Len(program.statements) = 1
         /\ LET for_cond == program.statements[1]
                var_decl == for_cond.initializer
            IN /\ for_cond.node = "For"
               /\ var_decl.node = "Variable"
               /\ var_decl.identifier.name = "i"
               /\ var_decl.type.node = "Identifier"
               /\ var_decl.type.name = ty
               /\ var_decl.initializer.node = "Literal"
               /\ var_decl.initializer.value = e
               /\ for_cond.condition.node
                    = (IF c = <<"true">> THEN "Literal" ELSE "Binary")
               /\ for_cond.increment.node
                    = (IF inc = <<"i", "++">> THEN "Unary" ELSE "Binary")
               /\ for_cond.then_branch.node = "Block"
               /\ for_cond.then_branch.statements = <<>>

\* a written class member is a method when `fn` follows its accessors and
\* modifiers
IsMethodText(m) == \E k \in DOMAIN m : m[k] = "fn"

IsFieldText(m) == ~IsMethodText(m)

\* the name a written member declares: the word before `:` or `(`
MemberName(m) ==
  m[(CHOOSE k \in DOMAIN m : m[k] \in {":", "("}
                             /\ \A j \in 1..(k - 1) : m[j] \notin {":", "("})
    - 1]

\* C11: every member of a class body becomes, in source order, one field
\* or one method: a method when `fn` follows its accessors and modifiers, a
\* field otherwise, and none is skipped.
C11_EveryClassMemberParsed ==
  \A ms \in SeqsUpTo(Members, MaxMembers) :
    (source_ = Join(ClsProgram(ms)) /\ pc \notin {"lex", "parse"})
      => /\ Parsed
         /\ Len(program.statements) = 1
         /\ LET cls == program.statements[1]
                fs == SelectSeq(ms, IsFieldText)
                fns == SelectSeq(ms, IsMethodText)
            IN /\ cls.node = "Class"
               /\ Len(cls.fields) = Len(fs)
               /\ Len(cls.methods) = Len(fns)
               /\ \A k \in DOMAIN fs :
                    /\ cls.fields[k].node = "Variable"
                    /\ cls.fields[k].identifier.name = MemberName(fs[k])
               /\ \A k \in DOMAIN fns :
                    /\ cls.methods[k].node = "Function"
                    /\ cls.methods[k].identifier.name = MemberName(fns[k])

\* the shape of an expression: its operator and operands without the loci
RECURSIVE Shape(_)
Shape(n) ==
  CASE n.node = "Identifier" -> [op |-> n.name, args |-> <<>>]
    [] n.node = "Binary" -> [op |-> n.op, args |-> <<Shape(n.left), Shape(n.right)>>]
    [] n.node = "Attribute" -> [op |-> ".", args |-> <<Shape(n.object), Shape(n.attribute)>>]
    [] n.node = "Call" -> [op |-> "()", args |-> <<Shape(n.callee)>> \o [k \in DOMAIN n.arguments |-> Shape(n.arguments[k])]]
    [] OTHER -> [op |-> n.node, args |-> <<>>]

Leaf(name) == [op |-> name, args |-> <<>>]

Tree(op, left, right) == [op |-> op, args |-> <<left, right>>]

\* the program is one expression statement of the given shape
ParsesAs(shape) ==
  /\ Parsed
  /\ Len(program.statements) = 1
  /\ program.statements[1].node = "ExpressionStatement"
  /\ Shape(program.statements[1].expression) = shape

\* the written words have been parsed
Written(ws) == source_ = Join(ws) /\ pc \notin {"lex", "parse"}

\* C12: attribute access is a left-associative postfix that binds tighter
\* than every binary operator: a.b.c is Attribute(Attribute(a, b), c),
\* a.b + c is Binary(+, Attribute(a, b), c), a.b = c is
\* Binary(=, Attribute(a, b), c), and a.b() keeps a Call as attribute child.
C12_AttributeIsLeftAssociativePostfix ==
  /\ Written(<<"a", ".", "b", ";">>) => ParsesAs(Tree(".", Leaf("a"), Leaf("b")))
  /\ Written(<<"a", ".", "b", ".", "c", ";">>) => ParsesAs(Tree(".", Tree(".", Leaf("a"), Leaf("b")), Leaf("c")))
  /\ Written(<<"a", ".", "b", "+", "c", ";">>) => ParsesAs(Tree("+", Tree(".", Leaf("a"), Leaf("b")), Leaf("c")))
  /\ Written(<<"a", ".", "b", "=", "c", ";">>) => ParsesAs(Tree("=", Tree(".", Leaf("a"), Leaf("b")), Leaf("c")))
  /\ Written(<<"a", "+", "b", ".", "c", ";">>) => ParsesAs(Tree("+", Leaf("a"), Tree(".", Leaf("b"), Leaf("c"))))
  /\ Written(<<"a", ".", "b", "(", ")", ";">>) => ParsesAs(Tree(".", Leaf("a"), [op |-> "()", args |-> <<Leaf("b")>>]))

\* the binding level of a binary operator, 0 the loosest
OpLevel(op) ==
  CASE op = "=" -> 0
    [] op = "||" -> 1
    [] op = "&&" -> 2
    [] op \in {"==", "!="} -> 3
    [] op \in {"<", ">", "<=", ">=", ".."} -> 4
    [] op \in {"+", "-"} -> 5
    [] op \in {"*", "/", "%"} -> 6

\* the words are identifiers joined by binary operators
IsOpExpression(ws) ==
  /\ Len(ws) % 2 = 1
  /\ \A k \in DOMAIN ws :
       IF k % 2 = 1 THEN \E j \in DOMAIN Names : ws[k] = Names[j]
                    ELSE ws[k] \in BinaryOperators

\* where a written expression splits: at its loosest operator, the first one
\* when that is `=` (which groups to the right) and the last one otherwise
SplitAt(ws) ==
  LET at == {k \in DOMAIN ws : k % 2 = 0}
      loosest == CHOOSE k \in at : \A j \in at : OpLevel(ws[k]) <= OpLevel(ws[j])
      same == {k \in at : OpLevel(ws[k]) = OpLevel(ws[loosest])}
  IN IF OpLevel(ws[loosest]) = 0
       THEN CHOOSE k \in same : \A j \in same : k <= j
       ELSE CHOOSE k \in same : \A j \in same : k >= j

\* the grouping the binding levels give a written expression
RECURSIVE Grouping(_)
Grouping(ws) ==
  IF Len(ws) = 1 THEN Leaf(ws[1])
  ELSE Tree(ws[SplitAt(ws)],
            Grouping(SubSeq(ws, 1, SplitAt(ws) - 1)),
            Grouping(SubSeq(ws, SplitAt(ws) + 1, Len(ws))))

\* the words of the lexed statement, without its `;` and the end of file
StatementWords == [k \in 1..(Len(tokens_) - 2) |-> tokens_[k].value]

\* an expression of identifiers and binary operators followed by `;` has
\* been parsed
OpExpressionParsed ==
  /\ pc \notin {"lex", "parse"}
  /\ Len(tokens_) >= 3
  /\ tokens_[Len(tokens_) - 1].value = ";"
  /\ IsOpExpression(StatementWords)

Lexeme(token) ==
  Str(Substr(source_, token.start.index, token.end.index - token.start.index))

\* the lexer has reported a diagnostic
LexReported(description) ==
  \E k \in DOMAIN lexLog : lexLog[k].description = description

One(c) == IF c.node = "nullptr" THEN <<>> ELSE <<c>>

Children(n) ==
  CASE n.node = "Binary" -> One(n.left) \o One(n.right)
    [] n.node = "Unary" -> One(n.operand)
    [] n.node = "ArrayIdentifier" -> One(n.size)
    [] n.node = "Index" -> One(n.array) \o One(n.index)
    [] n.node = "Call" -> One(n.callee) \o n.arguments
    [] n.node = "Attribute" -> One(n.object) \o One(n.attribute)
    [] n.node = "Array" -> n.elements
    [] n.node \in {"Return", "ExpressionStatement"} -> One(n.expression)
    [] n.node \in {"Block", "Program"} -> n.statements
    [] n.node = "Variable" -> One(n.modifier) \o One(n.identifier) \o One(n.type) \o One(n.initializer)
    [] n.node = "Function" -> One(n.modifier) \o One(n.identifier) \o One(n.type) \o n.parameters \o One(n.body)
    [] n.node = "Record" -> One(n.modifier) \o One(n.identifier) \o n.fields
    [] n.node = "Class" -> One(n.modifier) \o One(n.identifier) \o n.fields \o n.methods
    [] n.node \in {"Conditional", "While"} -> One(n.condition) \o One(n.then_branch)
    [] n.node = "If" -> One(n.condition) \o One(n.then_branch) \o n.elif_branches \o One(n.else_branch)
    [] n.node = "Switch" -> One(n.switch_expression) \o n.case_branches
    [] n.node = "For" -> One(n.initializer) \o One(n.condition) \o One(n.increment) \o One(n.then_branch)
    [] OTHER -> <<>>

\* a node and the nodes under it
RECURSIVE Nodes(_)
Nodes(n) == {n} \cup UNION {Nodes(Children(n)[k]) : k \in DOMAIN Children(n)}

\* the span of a node holds the span of each child
HoldsChildren(n) ==
  \A k \in DOMAIN Children(n) :
    /\ n.start.index <= Children(n)[k].start.index
    /\ Children(n)[k].end.index <= n.end.index

\* C15: the span of every node of a parsed program holds the span of each
\* of its children, a declaration's modifier and type, the elements of an
\* array literal and the index of an index expression included.
C15_NodeSpanHoldsChildren ==
  (Parsed /\ program.node = "Program")
    => \A n \in Nodes(program) : HoldsChildren(n)

\* the names of the scopes open after the first k entries and exits
RECURSIVE OpenScopes(_, _)
OpenScopes(trace, k) ==
  IF k = 0 THEN <<>>
  ELSE IF trace[k].op = "enter"
    THEN Append(OpenScopes(trace, k - 1), trace[k].name)
  ELSE SubSeq(OpenScopes(trace, k - 1), 1, Len(OpenScopes(trace, k - 1)) - 1)

\* an exit leaves the scope entered last among those still open
ExitsInnermost(trace, k) ==
  /\ OpenScopes(trace, k - 1) # <<>>
  /\ trace[k].depth = Len(OpenScopes(trace, k - 1))
  /\ trace[k].name = OpenScopes(trace, k - 1)[Len(OpenScopes(trace, k - 1))]

\* the analyzer in the global scope, and declarations that failed
InGlobal == enterScope(AnalyzerInit, "global", ScopeKind.Global)

\* C16: the scopes the analyzer enters and leaves are properly nested:
\* every exit leaves the scope entered last, none happens with no scope
\* open, no scope is open when analyze returns, and the early return of a
\* function or class declaration that could not be declared opens none.
C16_ScopesProperlyNested ==
  Analyzed
    => /\ \A k \in DOMAIN scopeTrace :
            scopeTrace[k].op = "exit" => ExitsInnermost(scopeTrace, k)
       /\ OpenScopes(scopeTrace, Len(scopeTrace)) = <<>>
       /\ \A k \in DOMAIN program.statements :
            /\ program.statements[k].node = "Function"
                 => FunctionDeclared(program.statements[k], [a |-> InGlobal, func |-> [name |-> ""]]).trace = InGlobal.trace
            /\ program.statements[k].node = "Class"
                 => ClassDeclared(program.statements[k], [a |-> InGlobal, cls |-> [name |-> ""]]).trace = InGlobal.trace

\* analyze has returned from a class whose method's block was four scopes
\* deep, and a function and a class have been analyzed
C16_NestedScopesLeft ==
  /\ Analyzed
  /\ \E k \in DOMAIN scopeTrace : scopeTrace[k].op = "exit" /\ scopeTrace[k].depth = 4
  /\ \E k \in DOMAIN program.statements : program.statements[k].node = "Class"
  /\ OpenScopes(scopeTrace, Len(scopeTrace)) = <<>>

(***************************************************************************)
(* C17                                                                     *)
(***************************************************************************)
\* C17: promote is commutative: for every pair of primitive types a and b,
\* signed and unsigned integers of the same width among them, what
\* promoteTypes(a, b) returned equals promoteTypes(b, a) under the equality
\* of types.
C17_PromoteCommutes ==
  Returned("promoteTypes") =>
    TypeEquals(returned, promoteTypes(called.args[2], called.args[1]))

(***************************************************************************)
(* C18                                                                     *)
(***************************************************************************)
IntegerKinds ==
  {"I8", "I16", "I32", "I64", "I128", "U8", "U16", "U32", "U64", "U128"}

FloatKinds == {"F16", "F32", "F64", "F128"}

\* the width in bytes of an integer kind
IntegerBytes(kind) ==
  CASE kind \in {"I8", "U8"} -> 1
    [] kind \in {"I16", "U16"} -> 2
    [] kind \in {"I32", "U32"} -> 4
    [] kind \in {"I64", "U64"} -> 8
    [] kind \in {"I128", "U128"} -> 16

Assignable(to, from) ==
  \/ to.kind = from.kind
  \/ to.kind \in FloatKinds /\ from.kind \in IntegerKinds
  \/ /\ to.kind \in IntegerKinds
     /\ from.kind \in IntegerKinds
     /\ IntegerBytes(from.kind) <= IntegerBytes(to.kind)

\* C18: canAssignType(to, from) is true exactly when to and from have the
\* same kind, or to is a floating-point type and from an integer type, or
\* both are integer types and from is no wider than to; so a type is
\* assigned to itself, and neither a wider integer nor a floating-point
\* type is assigned to an integer.
C18_CanAssignIsWidening ==
  Returned("canAssignType") =>
    LET to == called.args[1]
        from == called.args[2]
    IN /\ returned = Assignable(to, from)
       /\ to = from => returned
       /\ (to.kind = "I8" /\ from.kind = "I64") => ~returned
       /\ (to.kind \in IntegerKinds /\ from.kind \in FloatKinds) => ~returned

\* an integer was offered to a narrower integer, and refused
C18_NarrowingRefused ==
  /\ Returned("canAssignType")
  /\ called.args[1].kind = "I8"
  /\ called.args[2].kind = "I64"
  /\ returned = FALSE

(***************************************************************************)
(* C19                                                                     *)
(***************************************************************************)
Keywords ==
  {"if", "fn", "in", "for", "let", "cls", "rec", "pub", "pri", "pro",
   "elif", "else", "case", "this", "null", "true", "false", "while",
   "break", "const", "init", "return", "switch", "default", "continue"}

\* C19: isKwy(s) is true if and only if s is one of the 25 keywords, and
\* the lexer gives an alphabetic lexeme the kind Keyword if it is one of
\* them and Identifier otherwise; the lexeme init is a Keyword.
C19_KeywordsAreTheListedWords ==
  /\ Returned("isKwy") =>
       returned = (Str(called.args[1]) \in Keywords)
  /\ Returned("lexAlpha") =>
       /\ returned.kind =
            IF returned.value \in Keywords THEN "Keyword" ELSE "Identifier"
       /\ returned.value = "init" => returned.kind = "Keyword"

(***************************************************************************)
(* C20                                                                     *)
(***************************************************************************)
TwoCharOperators ==
  {<<"+", "=">>, <<"+", "+">>, <<"-", "=">>, <<"-", "-">>, <<"*", "=">>,
   <<"*", "*">>, <<"/", "=">>, <<"%", "%">>, <<"=", "=">>, <<"!", "=">>,
   <<"<", "=">>, <<"<", "<">>, <<">", "=">>, <<">", ">">>, <<".", ".">>,
   <<".", "=">>, <<"&", "&">>, <<"|", "|">>, <<"?", "?">>}

SingleCharOperators ==
  {"+", "-", "*", "/", "%", "=", "!", "<", ">", ".", "&", "|", "?", "^", "~"}

\* the length of the operator a text begins with
OperatorLength(str) ==
  IF Len(str) >= 2 /\ SubSeq(str, 1, 2) \in TwoCharOperators THEN 2
  ELSE IF Len(str) >= 1 /\ str[1] \in SingleCharOperators THEN 1
  ELSE 0

\* C20: opLen(s) returns 2 when s begins with a two-character operator, 1
\* when s begins with a single-character operator that forms no
\* two-character operator with the next character, whatever follows it
\* (as in +a or = x), and 0 otherwise.
C20_OperatorLengthOfPrefix ==
  Returned("opLen") => returned = OperatorLength(called.args[1])


(***************************************************************************)
(* C21                                                                     *)
(***************************************************************************)
\* Lexer::lex has returned
Lexed == pc # "lex" /\ pc # "call" /\ pc # "returned"

\* the characters of names, numbers, operators, delimiters and blanks
PlainChars ==
  Lower \cup Upper \cup Digit \cup {"+", ".", ";", "=", " ", "\n"}

\* the character at q opens a string that nothing closes: only plain text
\* stands before it, and no double quote after it
OpensUnclosedString(q) ==
  /\ source_[q] = "\""
  /\ \A k \in 1..(q - 1) : source_[k] \in PlainChars
  /\ \A k \in (q + 1)..Len(source_) : source_[k] # "\""

UnterminatedStrings ==
  {k \in DOMAIN lexLog :
     lexLog[k].description = "Unterminated string literal"}

\* the tokens of the same source with the string closed at its end
Terminated == lex(Append(source_, "\"")).tokens

\* C21: for a source in which a double quote is opened and never closed,
\* the lexer reports 'Unterminated string literal' exactly once, makes a
\* String token of the text from the opening quote to the end of the input
\* (newlines and single quotes included), and appends Eof; the tokens
\* before the string are those of the source with the string terminated.
C21_UnterminatedStringLexed ==
  \A q \in DOMAIN source_ :
    (Lexed /\ OpensUnclosedString(q)) =>
      /\ Cardinality(UnterminatedStrings) = 1
      /\ Len(tokens_) >= 2
      /\ tokens_[Len(tokens_)].kind = "Eof"
      /\ tokens_[Len(tokens_) - 1].kind = "String"
      /\ tokens_[Len(tokens_) - 1].value
           = Str(SubSeq(source_, q, Len(source_)))
      /\ tokens_[Len(tokens_) - 1].start.index = q - 1
      /\ tokens_[Len(tokens_) - 1].end.index = Len(source_)
      /\ Len(Terminated) = Len(tokens_)
      /\ Terminated[Len(tokens_) - 1].kind = "String"
      /\ SubSeq(tokens_, 1, Len(tokens_) - 2)
           = SubSeq(Terminated, 1, Len(tokens_) - 2)

\* an unterminated string with a newline and a single quote in it, after
\* another token, has been lexed
C21_StringAcrossLinesLexed ==
  /\ Lexed
  /\ \E q \in DOMAIN source_ :
       /\ q > 1
       /\ OpensUnclosedString(q)
       /\ \E k \in (q + 1)..Len(source_) : source_[k] = "\n"
       /\ \E k \in (q + 1)..Len(source_) : source_[k] = "'"
  /\ Len(tokens_) = 3
  /\ tokens_[2].kind = "String"

(***************************************************************************)
(* C22                                                                     *)
(***************************************************************************)
\* the character of the source at an index counted from 0, NUL past the end
SourceAt(i) == IF i < Len(source_) THEN source_[i + 1] ELSE NUL

\* the number of characters between the opening quote at index i and the
\* place of the closing quote: none if a quote follows at once, a backslash
\* and an escaped character, or one character, as far as the input goes
ContentLength(i) ==
  LET wanted == CASE SourceAt(i + 1) = "'" -> 0
                  [] SourceAt(i + 1) = "\\" -> 2
                  [] OTHER -> 1
      left == Len(source_) - (i + 1)
  IN IF wanted <= left THEN wanted ELSE left

IsClosed(i) == SourceAt(i + 1 + ContentLength(i)) = "'"

\* the length of the character literal opened at index i
LiteralLength(i) == 1 + ContentLength(i) + (IF IsClosed(i) THEN 1 ELSE 0)

\* the lexer reported the diagnostic at the token
LexReportedAt(description, token) ==
  \E k \in DOMAIN lexLog :
    /\ lexLog[k].description = description
    /\ lexLog[k].start = token.start

LexReports(description) ==
  {k \in DOMAIN lexLog : lexLog[k].description = description}

CharacterTokens == {k \in DOMAIN tokens_ : tokens_[k].kind = "Character"}

\* C22: a token that begins at a single quote is a Character token of the
\* quote, one content character or a backslash and an escaped character,
\* and the closing quote only if it comes next; 'Unterminated character
\* literal' is reported iff the closing quote is absent and 'Empty
\* character literal' iff a quote follows the opening quote at once; and
\* the lexer goes on with the rest of the input, so that 'abc' gives the
\* tokens 'a, bc and '.
C22_CharacterLiteralLexed ==
  /\ \A k \in DOMAIN tokens_ :
       LET token == tokens_[k]
           i == token.start.index
       IN (token.kind # "Eof" /\ SourceAt(i) = "'") =>
            /\ token.kind = "Character"
            /\ token.end.index = i + LiteralLength(i)
            /\ token.value = Str(Substr(source_, i, LiteralLength(i)))
            /\ LexReportedAt("Unterminated character literal", token)
                 <=> ~IsClosed(i)
            /\ LexReportedAt("Empty character literal", token)
                 <=> SourceAt(i + 1) = "'"
            /\ Lexed => /\ k < Len(tokens_)
                        /\ tokens_[k + 1].start.index >= token.end.index
  /\ \A k \in CharacterTokens : SourceAt(tokens_[k].start.index) = "'"
  /\ Cardinality(LexReports("Unterminated character literal"))
       = Cardinality({k \in CharacterTokens :
                        ~IsClosed(tokens_[k].start.index)})
  /\ Cardinality(LexReports("Empty character literal"))
       = Cardinality({k \in CharacterTokens :
                        SourceAt(tokens_[k].start.index + 1) = "'"})
  /\ (Lexed /\ source_ = <<"'", "a", "b", "c", "'">>) =>
       /\ Len(tokens_) = 4
       /\ tokens_[1].kind = "Character" /\ tokens_[1].value = "'a"
       /\ tokens_[2].kind = "Identifier" /\ tokens_[2].value = "bc"
       /\ tokens_[3].kind = "Character" /\ tokens_[3].value = "'"
       /\ tokens_[4].kind = "Eof"

\* the literal 'abc' has been lexed, with its two unterminated literals
C22_LongLiteralLexed ==
  /\ Lexed
  /\ source_ = <<"'", "a", "b", "c", "'">>
  /\ Cardinality(LexReports("Unterminated character literal")) = 2
  /\ Cardinality(CharacterTokens) = 2

(***************************************************************************)
(* C23                                                                     *)
(***************************************************************************)
\* the kind of the primitive type of a name
PrimitiveKind(name) ==
  CASE name = "none" -> "None"
    [] name = "void" -> "Void"
    [] name = "null" -> "Null"
    [] name = "bool" -> "Boolean"
    [] name = "i8" -> "I8"
    [] name = "i16" -> "I16"
    [] name = "i32" -> "I32"
    [] name = "i64" -> "I64"
    [] name = "i128" -> "I128"
    [] name = "u8" -> "U8"
    [] name = "u16" -> "U16"
    [] name = "u32" -> "U32"
    [] name = "u64" -> "U64"
    [] name = "u128" -> "U128"
    [] name = "f16" -> "F16"
    [] name = "f32" -> "F32"
    [] name = "f64" -> "F64"
    [] name = "f128" -> "F128"
    [] name = "char" -> "Character"
    [] name = "str" -> "String"

\* C23: in a scope at any depth, whatever classes, records, variables and
\* functions the scope and its ancestors hold, getType(p) returns the
\* primitive type of the name p, for each of the twenty primitive names.
C23_PrimitivesResolveEverywhere ==
  Returned("getType") =>
    returned = [kind |-> PrimitiveKind(called.args[2]),
                name |-> called.args[2]]

(***************************************************************************)
(* C24                                                                     *)
(***************************************************************************)
\* how many of the nodes, which follow one another in the source, begin at
\* or before a locus: the number of the node the locus lies in
OwnerAmong(nodes, at) ==
  Cardinality({k \in DOMAIN nodes : nodes[k].start.index <= at.index})

\* no diagnostic about a later node comes before one about an earlier node
InSourceOrder(nodes, diagnostics) ==
  \A i, j \in DOMAIN diagnostics :
    i < j => OwnerAmong(nodes, diagnostics[i].start)
               <= OwnerAmong(nodes, diagnostics[j].start)

ClassStatements ==
  {k \in DOMAIN program.statements : program.statements[k].node = "Class"}

\* C24: the diagnostics of the analyzer are in the order of the source: one
\* about an earlier statement or class member never comes after one about
\* a later statement or member; for a class of two methods, the errors in
\* the body of the first method come before every error about the return
\* type and the parameter types of the second.
C24_DiagnosticsInSourceOrder ==
  (Analyzed /\ program.node = "Program") =>
    /\ InSourceOrder(program.statements, errors)
    /\ \A k \in ClassStatements :
         InSourceOrder(program.statements[k].methods, errors)

(***************************************************************************)
(* C25                                                                     *)
(***************************************************************************)
\* the places of the carets in a printed line, counted from 1
CaretColumns(line) == {k \in DOMAIN line : line[k] = "^"}

Widest(m, n) == IF m >= n THEN m ELSE n

\* C25: for a diagnostic with start.line > 0 the line of carets has exactly
\* max(2, end.column - start.column) carets, one after another, the first
\* under the column start.column of the source line printed above it; a
\* span one column wide gets two carets.
C25_CaretsUnderTheSpan ==
  (Returned("log") /\ called.args[1].start.line > 0) =>
    LET err == called.args[1]
        wanted == Widest(2, err.end.column - err.start.column)
    IN /\ returned.shown
       /\ returned.caret_gutter = returned.source_gutter
       /\ CaretColumns(returned.carets)
            = err.start.column..(err.start.column + wanted - 1)
       /\ (err.end.column - err.start.column = 1) =>
            Cardinality(CaretColumns(returned.carets)) = 2

(***************************************************************************)
(* C26                                                                     *)
(***************************************************************************)
\* an expression with its literals: the operator and the operands
RECURSIVE Operands(_)
Operands(n) ==
  CASE n.node = "Literal" -> Leaf(n.value)
    [] n.node = "Identifier" -> Leaf(n.name)
    [] n.node = "Binary" -> Tree(n.op, Operands(n.left), Operands(n.right))
    [] OTHER -> Leaf(n.node)

\* what an iterable of one name, or of two names and an operator, is
IterableOf(ws) ==
  IF Len(ws) = 1 THEN Leaf(ws[1]) ELSE Tree(ws[2], Leaf(ws[1]), Leaf(ws[3]))

\* the program is one For statement
OneFor == Len(program.statements) = 1 /\ program.statements[1].node = "For"

IsForEach(loop, name, ty, iterable) ==
  /\ loop.initializer.node = "Variable"
  /\ loop.initializer.identifier.name = name
  /\ loop.initializer.type.node = "Identifier"
  /\ loop.initializer.type.name = ty
  /\ loop.initializer.initializer = Null
  /\ loop.condition = Null
  /\ loop.increment # Null
  /\ Operands(loop.increment) = IterableOf(iterable)

IsRange(loop, lo, hi) ==
  /\ loop.initializer = Null
  /\ loop.increment = Null
  /\ loop.condition.node = "Binary"
  /\ Operands(loop.condition) = Tree("..", Leaf(lo), Leaf(hi))

\* a source that begins with the word for has been parsed
ForWritten ==
  /\ pc \notin {"lex", "parse", "call", "returned"}
  /\ Len(source_) > 3
  /\ SubSeq(source_, 1, 3) = <<"f", "o", "r">>

\* C26: for (name: T in iterable) body is parsed as a For whose initializer
\* is the Variable declaration of name with the type T, whose condition is
\* null and whose increment is the iterable; for (lo..hi) body is parsed as
\* a For whose initializer and increment are null and whose condition is
\* the Binary .. of lo and hi.
C26_ForEachAndRangeParsed ==
  ForWritten =>
  /\ \A name \in {"x", "i"}, ty \in {"i32", "str", "Point"} :
       \A iterable \in Iterables, body \in LoopBodies :
         Written(ForEachProgram(name, ty, iterable, body)) =>
           /\ parseFault = "none"
           /\ OneFor
           /\ IsForEach(program.statements[1], name, ty, iterable)
  /\ \A lo \in RangeEnds, hi \in RangeEnds :
       /\ \A body \in LoopBodies :
            Written(RangeProgram(lo, hi, body)) =>
              /\ parseFault = "none"
              /\ OneFor
              /\ IsRange(program.statements[1], lo, hi)
       /\ (source_ = RangeText(lo, hi) /\ pc \notin {"lex", "parse"}) =>
            /\ parseFault = "none"
            /\ OneFor
            /\ IsRange(program.statements[1], lo, hi)

\* a for-each loop over a sum and a range loop written without blanks have
\* been parsed
C26_ForEachOverSumParsed ==
  /\ Written(ForEachProgram("i", "Point", <<"a", "+", "b">>,
                            <<"break", ";">>))
  /\ OneFor
  /\ program.statements[1].increment.node = "Binary"
  /\ program.statements[1].condition = Null

(***************************************************************************)
(* C27                                                                     *)
(***************************************************************************)
\* the index in the source of the k-th of the written words
WordIndex(ws, k) ==
  IF k = 1 THEN 0 ELSE Len(Join(SubSeq(ws, 1, k - 1))) + 1

TypesAtIndex(i) ==
  {inferred[k].type : k \in {m \in DOMAIN inferred : inferred[m].at.index = i}}

UndeclaredAtIndex(name, i) ==
  \E k \in DOMAIN errors :
    /\ errors[k].description = "Undeclared identifier: " \o name
    /\ errors[k].start.index = i

\* the use of x at an index resolves to the declaration of the type ty,
\* or, with ty empty, does not resolve
ResolvesTo(i, ty) ==
  IF ty = ""
    THEN UndeclaredAtIndex("x", i) /\ TypesAtIndex(i) = {none_ty}
    ELSE ~UndeclaredAtIndex("x", i) /\ TypesAtIndex(i) = {Primitive(ty)}

\* the word of the use of x in the scope, which "}" and "x ;" follow
UseInside(ws, c) == IF c = "blocks" THEN Len(ws) - 5 ELSE Len(ws) - 4

ScopeWritten ==
  /\ Analyzed
  /\ \E outer \in {"", "i32"}, inner \in {"", "str"} :
       \E c \in DOMAIN ScopeOpeners \cup {"param", "each"} :
         (c \in {"param", "each"} => inner # "")
         /\ source_ = Join(ScopeProgram(outer, c, inner))

UnknownChars == {"@"}

\* C28: the None token that ends the tokens at a character the lexer does
\* not know has an empty lexeme and a span of no width at the place of that
\* character, with or without a blank before the character; the cached
\* lexeme is never stale: when the cache is marked clean, it is the text of
\* the source between the start and the current position.
C28_ValueCacheNeverStale ==
  /\ \A k \in DOMAIN tokens_ :
       tokens_[k].kind = "None" =>
         /\ tokens_[k].value = ""
         /\ tokens_[k].start = tokens_[k].end
         /\ SourceAt(tokens_[k].start.index) \in UnknownChars
  /\ (pc \in {"lex", "parse"} /\ ~value_dirty_) =>
       cached_value_
         = Substr(source_, start_.index, current_.index - start_.index)

(***************************************************************************)
(* C29                                                                     *)
(***************************************************************************)
\* the errors about a type that is not valid or not declared
TypeErrors ==
  {"Undeclared identifier: a",
   "Invalid type for variable declaration: b",
   "Invalid type for function parameter: p",
   "Invalid return type for function declaration: f",
   "Invalid type for record field: x"}

\* an error about the type is recorded in the text from an index on
TypeErrorFrom(i) ==
  \E k \in DOMAIN errors :
    errors[k].description \in TypeErrors /\ errors[k].start.index >= i

\* C29: a declaration of a variable, a parameter, a field or a return type
\* whose annotation names a variable or a function declared before, and no
\* type, is reported with an error about the type, and a variable so
\* declared is never given the type of the variable named.
C29_NonTypeAnnotationReported ==
  Analyzed =>
    \A before \in NamedBefore, annotated \in Annotated :
      source_ = Join(before \o annotated) =>
        /\ analyzeFault = "none"
        /\ TypeErrorFrom(WordIndex(before \o annotated, Len(before) + 1))
        /\ annotated[2] = "b" =>
             \A k \in DOMAIN inferred :
               inferred[k].type # Type("I32", "i32")

(***************************************************************************)
(* C30                                                                     *)
(***************************************************************************)
\* the literal written for a type
LiteralOf(ty) == IF ty = "str" THEN "\"s\"" ELSE "1"

TwiceProgram(T1, T2) ==
  <<"let", "x", ":", T1, "=", LiteralOf(T1), ";",
    "let", "x", ":", T2, "=", LiteralOf(T2), ";", "x", ";">>

\* C30: after two declarations of a name in one scope, the name is that of
\* the later declaration: a use of it infers the type of the second
\* declaration, and the initializer of the second declaration is checked
\* against the type the second declaration declares, so that a str
\* variable declared again as i64 with an integer records no mismatch.
C30_LaterDeclarationWins ==
  Analyzed =>
    \A T1 \in {"str", "i64"}, T2 \in {"str", "i64"} :
      source_ = Join(TwiceProgram(T1, T2)) =>
        /\ TypesAtIndex(WordIndex(TwiceProgram(T1, T2), 15))
             = {Primitive(T2)}
        /\ \A k \in DOMAIN errors :
             errors[k].description
               # "Type mismatch in variable initializer: x"

====
